---- MODULE Spec2Model ----
(***************************************************************************)
(* Voice command / playback state machine of the Schoology extension       *)
(* content script (src/content.js, class VoiceCommandSystem).              *)
(*                                                                         *)
(* The object's fields are the record vcs; the browser around it (timers,  *)
(* recognition engine instances, the synthesis queue, storage, the clock)  *)
(* is the record env; obs records what the last handler did (which         *)
(* commands it passed to processVoiceCommand, which router branches ran,   *)
(* which synthesis requests it issued) so that properties of a single      *)
(* handler run can be stated over states.                                  *)
(*                                                                         *)
(* Every handler is an operator from a world [v, e, o] to a world, written *)
(* statement by statement after the source; an action applies one handler  *)
(* to the current world.                                                   *)
(***************************************************************************)
EXTENDS Integers, Sequences, FiniteSets, TLC

VARIABLES vcs, env, obs

vars == <<vcs, env, obs>>

----------------------------------------------------------------------------
(* Strings.  Transcripts and narration texts are strings; the JavaScript   *)
(* string functions the handlers use are computed character by character.  *)

CharAt(s, i) == SubSeq(s, i, i)

\* String.prototype.includes
Includes(h, n) ==
    \E i \in 1..(Len(h) - Len(n) + 1) : SubSeq(h, i, i + Len(n) - 1) = n

UpperChars == <<"H", "S", "P", "A", "D", "C">>
LowerChars == <<"h", "s", "p", "a", "d", "c">>

LowerChar(c) ==
    IF \E k \in DOMAIN UpperChars : UpperChars[k] = c
    THEN LowerChars[CHOOSE k \in DOMAIN UpperChars : UpperChars[k] = c]
    ELSE c

RECURSIVE LowerFrom(_, _)
LowerFrom(s, i) ==
    IF i > Len(s) THEN "" ELSE LowerChar(CharAt(s, i)) \o LowerFrom(s, i + 1)

\* String.prototype.toLowerCase
ToLowerCase(s) == LowerFrom(s, 1)

\* String.prototype.trim (the only white space the transcripts carry is " ")
Trim(s) ==
    LET nonBlank == {i \in 1..Len(s) : CharAt(s, i) # " "}
    IN  IF nonBlank = {} THEN ""
        ELSE LET lo == CHOOSE i \in nonBlank : \A j \in nonBlank : i <= j
                 hi == CHOOSE i \in nonBlank : \A j \in nonBlank : i >= j
             IN  SubSeq(s, lo, hi)

\* String.prototype.split(' ')
RECURSIVE SplitFrom(_, _, _)
SplitFrom(s, i, cur) ==
    IF i > Len(s) THEN <<cur>>
    ELSE IF CharAt(s, i) = " " THEN <<cur>> \o SplitFrom(s, i + 1, "")
    ELSE SplitFrom(s, i + 1, cur \o CharAt(s, i))

Split(s) == SplitFrom(s, 1, "")

\* Array.prototype.join(' ')
RECURSIVE Join(_)
Join(ws) ==
    IF Len(ws) = 0 THEN ""
    ELSE IF Len(ws) = 1 THEN ws[1]
    ELSE ws[1] \o " " \o Join(Tail(ws))

\* Array.prototype.slice(from) for an integer 0 <= from
Slice(ws, from) ==
    IF from >= Len(ws) THEN <<>> ELSE SubSeq(ws, from + 1, Len(ws))

Min(a, b) == IF a <= b THEN a ELSE b
Max(a, b) == IF a >= b THEN a ELSE b

----------------------------------------------------------------------------
(* CommandRouter: the branch of processVoiceCommand's if/else-if chain a   *)
(* command takes when no comment is being recorded.                        *)

RouterAction(command) ==
    IF Includes(command, "download") \/ Includes(command, "download button")
        THEN "downloadFile"
    ELSE IF Includes(command, "extract") \/ Includes(command, "read")
            \/ Includes(command, "text")
        THEN "extractText"
    ELSE IF Includes(command, "ocr") \/ Includes(command, "scan")
        THEN "performOCR"
    ELSE IF Includes(command, "speak") \/ Includes(command, "read aloud")
            \/ Includes(command, "play text")
        THEN "speakText"
    ELSE IF Includes(command, "pause") \/ Includes(command, "stop speaking")
        THEN "pauseSpeaking"
    ELSE IF Includes(command, "resume") \/ Includes(command, "continue")
            \/ Includes(command, "play")
        THEN "resumeSpeaking"
    ELSE IF Includes(command, "skip") \/ Includes(command, "forward")
        THEN "skipSeconds(10)"
    ELSE IF Includes(command, "back") \/ Includes(command, "rewind")
        THEN "skipSeconds(-10)"
    ELSE IF Includes(command, "skip 5") \/ Includes(command, "forward 5")
        THEN "skipSeconds(5)"
    ELSE IF Includes(command, "back 5") \/ Includes(command, "rewind 5")
        THEN "skipSeconds(-5)"
    ELSE IF Includes(command, "skip 15") \/ Includes(command, "forward 15")
        THEN "skipSeconds(15)"
    ELSE IF Includes(command, "back 15") \/ Includes(command, "rewind 15")
        THEN "skipSeconds(-15)"
    ELSE IF Includes(command, "summarize comments")
            \/ Includes(command, "summarize comment")
        THEN "summarizeComments"
    ELSE IF Includes(command, "add comment")
        THEN "addComment"
    ELSE IF Includes(command, "show comments") \/ Includes(command, "view comments")
        THEN "showComments"
    ELSE IF Includes(command, "clear comments") \/ Includes(command, "delete comments")
        THEN "clearComments"
    ELSE IF Includes(command, "add download button")
        THEN "addDownloadButton"
    ELSE IF Includes(command, "add extract button")
        THEN "addExtractButton"
    ELSE IF Includes(command, "add ocr button")
        THEN "addOCRButton"
    ELSE IF Includes(command, "all") /\ Includes(command, "button")
        THEN "addAllButtons"
    ELSE IF Includes(command, "remove") \/ Includes(command, "clear")
            \/ Includes(command, "delete")
        THEN "removeAllButtons"
    ELSE IF Includes(command, "force download") \/ Includes(command, "force add download")
        THEN "forceAddDownloadButton"
    ELSE IF Includes(command, "debug storage") \/ Includes(command, "check storage")
        THEN "debugStorage"
    ELSE IF Includes(command, "reload comments") \/ Includes(command, "refresh comments")
        THEN "forceReloadComments"
    ELSE IF Includes(command, "hey schoology") \/ Includes(command, "activate")
            \/ Includes(command, "wake up")
        THEN "activateWakeMode"
    ELSE IF Includes(command, "sleep") \/ Includes(command, "deactivate")
            \/ Includes(command, "goodbye")
        THEN "deactivateWakeMode"
    ELSE IF Includes(command, "help") \/ Includes(command, "commands")
            \/ Includes(command, "what")
        THEN "showVoiceCommands"
    ELSE "unknown"

\* The documented commands: the README's list, the commands and examples of
\* the design document's Appendix A, and the list showVoiceCommands shows,
\* each with the action the documentation gives it.
DocumentedCommands ==
    { [phrase |-> "extract text",        action |-> "extractText"],
      [phrase |-> "read aloud",          action |-> "speakText"],
      [phrase |-> "add comment",         action |-> "addComment"],
      [phrase |-> "show comments",       action |-> "showComments"],
      [phrase |-> "summarize comments",  action |-> "summarizeComments"],
      [phrase |-> "download",            action |-> "downloadFile"],
      [phrase |-> "download the assignment", action |-> "downloadFile"],
      [phrase |-> "extract",             action |-> "extractText"],
      [phrase |-> "extract the text",    action |-> "extractText"],
      [phrase |-> "ocr",                 action |-> "performOCR"],
      [phrase |-> "ocr this document",   action |-> "performOCR"],
      [phrase |-> "speak",               action |-> "speakText"],
      [phrase |-> "speak the content",   action |-> "speakText"],
      [phrase |-> "pause",               action |-> "pauseSpeaking"],
      [phrase |-> "pause reading",       action |-> "pauseSpeaking"],
      [phrase |-> "resume",              action |-> "resumeSpeaking"],
      [phrase |-> "resume reading",      action |-> "resumeSpeaking"],
      [phrase |-> "skip",                action |-> "skipSeconds(10)"],
      [phrase |-> "skip forward",        action |-> "skipSeconds(10)"],
      [phrase |-> "back",                action |-> "skipSeconds(-10)"],
      [phrase |-> "go back",             action |-> "skipSeconds(-10)"],
      [phrase |-> "add a comment",       action |-> "addComment"],
      [phrase |-> "show my comments",    action |-> "showComments"],
      [phrase |-> "summarize",           action |-> "summarizeComments"],
      [phrase |-> "clear comments",      action |-> "clearComments"],
      [phrase |-> "clear all comments",  action |-> "clearComments"],
      [phrase |-> "help",                action |-> "showVoiceCommands"],
      [phrase |-> "show help",           action |-> "showVoiceCommands"],
      [phrase |-> "read",                action |-> "extractText"],
      [phrase |-> "scan",                action |-> "performOCR"],
      [phrase |-> "continue",            action |-> "resumeSpeaking"],
      [phrase |-> "forward",             action |-> "skipSeconds(10)"],
      [phrase |-> "rewind",              action |-> "skipSeconds(-10)"],
      [phrase |-> "sleep",               action |-> "deactivateWakeMode"],
      [phrase |-> "goodbye",             action |-> "deactivateWakeMode"] }

\* The skip commands that name a count, with the skip each asks for.
CountedSkips ==
    { [phrase |-> "skip 5",     action |-> "skipSeconds(5)"],
      [phrase |-> "forward 5",  action |-> "skipSeconds(5)"],
      [phrase |-> "skip 15",    action |-> "skipSeconds(15)"],
      [phrase |-> "forward 15", action |-> "skipSeconds(15)"],
      [phrase |-> "back 5",     action |-> "skipSeconds(-5)"],
      [phrase |-> "rewind 5",   action |-> "skipSeconds(-5)"],
      [phrase |-> "back 15",    action |-> "skipSeconds(-15)"],
      [phrase |-> "rewind 15",  action |-> "skipSeconds(-15)"] }

----------------------------------------------------------------------------
(* Bounds of the model and constants of the program.                       *)

\* One step of the clock, in milliseconds.
TickMs == 500

\* FILE_DETECTED messages on their way to the content script, and fetches
\* of the content script in flight, at one time.
MaxMessages == 2
\* Timer ids, recognition engine instances and undelivered events of
\* cancelled utterances that may exist at the same time.
MaxTimers == 4
MaxEngines == 3
MaxLate == 2
\* Characters a comment transcript buffer may hold.
MaxTranscript == 12
\* Comments the in-memory list may hold.
MaxComments == 2

WakeTimeoutMs == 10000
CommandTimeoutMs == 1500
ErrorRestartMs == 2000
EndRestartMs == 1000
InvalidStateRetryMs == 3000
AutoRetryMs == 2000
CommentRestartMs == 100
ReinitMs == 1000
\* wordsPerSecond = 2.5, as words per ten seconds
WordsPer10s == 25

wakeWord == "hey schoology"
urgentCommands == <<"pause", "stop", "resume", "continue">>

\* Narration texts extractText may return for the cached file.
ShortText == "a b"
LongText == "a b c d e f g h i j"
\* thirty words: more than ten seconds of narration
SkipText == "a b c d e f g h i j k l m n o p q r s t u v w x y z 1 2 3 4"

\* What a recognition engine may report hearing.
Utterances ==
    { " Hey Schoology", "download", "hello", "activate", "sleep", "speak",
      "Pause", "pause reading", "resume", "skip", "add comment", "add",
      "stop comment", "fix" }
WakeUtterances ==
    {" Hey Schoology", "download", "hello", "activate", "sleep", "Pause"}
SessionUtterances ==
    {" Hey Schoology", "add comment", "stop comment", "fix this"}
TeardownUtterances == {" Hey Schoology", "add comment", "stop comment"}
CommentUtterances ==
    {" Hey Schoology", "add comment", "Stop Comment", "end comment", " "}
AnchorUtterances == {"a long note", "stop comment"}
SleepUtterances == {" Hey Schoology", "sleep", "deactivate", "hello"}
RouterUtterances ==
    {" Hey Schoology"} \cup {d.phrase : d \in DocumentedCommands \cup CountedSkips}
UrgentUtterances == {" Hey Schoology", "speak", "pause reading", "Pause"}

Ticks(ms) == (ms + TickMs - 1) \div TickMs

\* Beyond this many ticks the estimate of pauseSpeaking is the word count
\* of the text (and of every text cut from it).
ElapsedCap(text) == (Len(Split(text)) * 10000) \div (TickMs * WordsPer10s) + 1

----------------------------------------------------------------------------
(* The browser: timers.                                                    *)

(* A pending timer is a record: the kind of its callback, the ticks left,   *)
(* and its id when the program keeps one (wakeWordTimeout, commandTimeout; *)
(* ids are told apart within a kind only).  Timers whose id the program    *)
(* drops have id 0 and are counted: n of them with the same kind and time. *)

TimerIds == 1..MaxTimers

PendingTimers(w) ==
    LET RECURSIVE Sum(_)
        Sum(S) == IF S = {} THEN 0
                  ELSE LET t == CHOOSE t \in S : TRUE
                       IN  t.n + Sum(S \ {t})
    IN  Sum(w.e.timers)

FreshTimerId(w, kind) ==
    LET free == TimerIds \ {t.id : t \in {u \in w.e.timers : u.kind = kind}}
    IN  IF free = {} THEN 0 ELSE CHOOSE i \in free : \A j \in free : i <= j

\* id = setTimeout(callback, ms) for a callback whose id is kept
SetTimeoutId(w, kind, ms) ==
    IF PendingTimers(w) >= MaxTimers \/ FreshTimerId(w, kind) = 0
    THEN [w EXCEPT !.e.overflow = TRUE]
    ELSE [w EXCEPT !.e.timers =
              @ \cup {[id |-> FreshTimerId(w, kind), kind |-> kind,
                        left |-> Ticks(ms), n |-> 1]}]

\* setTimeout(callback, ms) for a callback whose id is dropped
SetTimeout(w, kind, ms) ==
    IF PendingTimers(w) >= MaxTimers THEN [w EXCEPT !.e.overflow = TRUE]
    ELSE LET same == {t \in w.e.timers :
                         t.id = 0 /\ t.kind = kind /\ t.left = Ticks(ms)}
             n == IF same = {} THEN 0 ELSE (CHOOSE t \in same : TRUE).n
         IN  [w EXCEPT !.e.timers =
                 (@ \ same) \cup {[id |-> 0, kind |-> kind,
                                   left |-> Ticks(ms), n |-> n + 1]}]

\* clearTimeout(id) for the id kept of a timer of the given kind
ClearTimeout(w, kind, id) ==
    [w EXCEPT !.e.timers = {t \in @ : ~(t.kind = kind /\ t.id = id)}]

(* The browser: speech synthesis.  utterances is the queue of requests     *)
(* that were passed to speak() and have neither finished nor been          *)
(* cancelled; late counts the cancelled ones whose end/error event is      *)
(* still to be delivered.                                                  *)

SynthesisCancel(w) ==
    LET n == Len(w.e.utterances)
    IN  IF w.e.late + n > MaxLate THEN [w EXCEPT !.e.overflow = TRUE]
        ELSE [w EXCEPT !.e.utterances = <<>>, !.e.late = @ + n]

SynthesisSpeak(w, text) ==
    [w EXCEPT !.e.utterances = Append(@, [text |-> text, state |-> "queued"]),
              !.o.spoken = Append(@, text)]

\* updateStatus(message, color): the text of the status element
updateStatus(w, message) == [w EXCEPT !.o.status = message]

----------------------------------------------------------------------------
(* PlaybackController.                                                     *)

\* startSpeaking as it would be without its synthesis.cancel(): C9 fails.
startSpeaking_NoCancel(w, text) ==
    LET w2 == [w EXCEPT !.v.currentText = text,
                        !.v.currentPosition = 0,
                        !.e.sinceSpeechStart = 0,
                        !.v.currentUtterance = TRUE]
    IN  SynthesisSpeak(w2, text)

\* startSpeaking as it would be without currentPosition = 0: a resumed
\* narration keeps counting from the position of the pause.
startSpeaking_KeepPosition(w, text) ==
    LET w1 == SynthesisCancel(w)
        w2 == [w1 EXCEPT !.v.currentText = text,
                         !.e.sinceSpeechStart = 0,
                         !.v.currentUtterance = TRUE]
    IN  SynthesisSpeak(w2, text)

startSpeaking(w, text) ==
    LET w1 == SynthesisCancel(w)
        w2 == [w1 EXCEPT !.v.currentText = text,
                         !.v.currentPosition = 0,
                         !.e.sinceSpeechStart = 0,
                         !.v.currentUtterance = TRUE]
    IN  SynthesisSpeak(w2, text)

\* Math.floor((Date.now() - this.speechStartTime) / 1000 * wordsPerSecond)
estimatedWordsSpoken(w) ==
    (w.e.sinceSpeechStart * TickMs * WordsPer10s) \div 10000

\* pauseSpeaking as it would be without Math.min(..., words.length): C10
\* fails.
pauseSpeaking_NoClamp(w) ==
    IF w.v.isSpeaking /\ ~w.v.isPaused
    THEN LET w1 == SynthesisCancel(w)
         IN  [w1 EXCEPT !.v.currentPosition = estimatedWordsSpoken(w1),
                        !.v.isSpeaking = FALSE,
                        !.v.isPaused = TRUE]
    ELSE w

pauseSpeaking(w) ==
    IF w.v.isSpeaking /\ ~w.v.isPaused
    THEN LET w1 == SynthesisCancel(w)
             words == Split(w1.v.currentText)
         IN  updateStatus(
                 [w1 EXCEPT !.v.currentPosition =
                                Min(estimatedWordsSpoken(w1), Len(words)),
                            !.v.isSpeaking = FALSE,
                            !.v.isPaused = TRUE],
                 "Speech paused")
    ELSE updateStatus(w, "Cannot pause - not speaking")

resumeSpeaking(w) ==
    IF w.v.isPaused /\ w.v.currentText # ""
    THEN LET words == Split(w.v.currentText)
             remainingText == Join(Slice(words, w.v.currentPosition))
         IN  IF Trim(remainingText) # ""
             THEN updateStatus(
                      startSpeaking([w EXCEPT !.v.isPaused = FALSE],
                                    remainingText),
                      "Speech resumed")
             ELSE updateStatus([w EXCEPT !.v.isPaused = FALSE],
                               "No more text to read")
    ELSE IF ~w.v.isSpeaking /\ ~w.v.isPaused /\ w.v.currentText # ""
    THEN updateStatus(startSpeaking(w, w.v.currentText), "Speech started")
    ELSE updateStatus(w, "Cannot resume - no paused speech")

\* Words of the extracted text that lie before the playback position: those
\* cut off the front of currentText, and currentPosition within it.
WordCount(text) == IF text = "" THEN 0 ELSE Len(Split(text))

AbsPosition(w) ==
    WordCount(w.e.docText) - WordCount(w.v.currentText) + w.v.currentPosition

\* Positions are counted in half words here: wordsToSkip = |seconds| * 2.5.
skipSeconds(w, seconds) ==
    IF w.v.isSpeaking /\ w.v.currentUtterance
    THEN LET w1 == SynthesisCancel(w)
             abs == IF seconds < 0 THEN 0 - seconds ELSE seconds
             wordsToSkip2 == (abs * WordsPer10s) \div 5
             words == Split(w1.v.currentText)
             pos2 == IF seconds > 0
                     THEN Min(2 * w1.v.currentPosition + wordsToSkip2,
                              2 * Len(words))
                     ELSE Max(2 * w1.v.currentPosition - wordsToSkip2, 0)
             remainingText == Join(Slice(words, pos2 \div 2))
             w2 == startSpeaking(w1, remainingText)
         IN  updateStatus(
                 [w2 EXCEPT !.o.skips =
                     Append(IF Len(@) > 1 THEN Tail(@) ELSE @,
                            [seconds |-> seconds, from |-> AbsPosition(w),
                             to |-> AbsPosition(w2)])],
                 "Skipped seconds")
    ELSE w

stopSpeaking(w) ==
    updateStatus([SynthesisCancel(w) EXCEPT !.v.isSpeaking = FALSE,
                                            !.v.isPaused = FALSE,
                                            !.v.currentPosition = 0],
                 "Speech stopped")

jumpToComment(w, position) ==
    IF w.v.currentText # ""
    THEN LET w1 == SynthesisCancel(w)
             words == Split(w1.v.currentText)
             remainingText == Join(Slice(words, position))
         IN  IF Trim(remainingText) # ""
             THEN updateStatus(
                      startSpeaking([w1 EXCEPT !.v.currentPosition = position],
                                    remainingText),
                      "Jumped to comment position")
             ELSE updateStatus(w1, "No text at comment position")
    ELSE updateStatus(w, "No text available to jump to")

\* speakText up to its await: the cached file's text is being extracted
speakText(w) ==
    IF w.e.cachedFileData
    THEN IF w.e.extracting >= 1 THEN [w EXCEPT !.e.overflow = TRUE]
         ELSE updateStatus([w EXCEPT !.e.extracting = @ + 1],
                           "Extracting text for speech...")
    ELSE updateStatus(w, "No file cached. Load a file first.")

\* speakText after extractText has returned text
speakTextExtracted(w, text) ==
    LET w0 == [w EXCEPT !.e.extracting = @ - 1]
    IN  IF text # ""
        THEN updateStatus(
                 startSpeaking([w0 EXCEPT !.v.currentText = text,
                                          !.v.currentPosition = 0], text),
                 "Reading text aloud...")
        ELSE updateStatus(w0, "No text found to read")

----------------------------------------------------------------------------
(* The browser: speech recognition engine instances.  An instance is free  *)
(* (no such object), idle (constructed or ended), starting (start() was    *)
(* called), listening (its start event was delivered) or stopping (stop()  *)
(* was called or an error occurred, its end event is still to come).       *)

EngineIds == 1..MaxEngines

NoEngine == [state |-> "free", kind |-> "none", handlers |-> FALSE]

FreshEngineId(w) ==
    LET free == {i \in EngineIds : w.e.engines[i].state = "free"}
    IN  IF free = {} THEN 0 ELSE CHOOSE i \in free : \A j \in free : i <= j

\* new SpeechRecognition() with the handlers of the given kind attached
NewEngine(w, id, kind) ==
    IF id = 0 THEN [w EXCEPT !.e.overflow = TRUE]
    ELSE [w EXCEPT !.e.engines[id] =
              [state |-> "idle", kind |-> kind, handlers |-> TRUE]]

\* recognition.start() throws InvalidStateError unless the instance is idle
StartThrows(w, id) == w.e.engines[id].state # "idle"

\* recognition.start() throws an error other than InvalidStateError while the
\* platform refuses to start recognition
StartRefused(w) == w.e.startRefused

RecognitionStart(w, id) ==
    [w EXCEPT !.e.engines[id].state = "starting",
              !.o.started = Append(@, id)]

RecognitionStop(w, id) ==
    IF w.e.engines[id].state \in {"starting", "listening"}
    THEN [w EXCEPT !.e.engines[id].state = "stopping"]
    ELSE w

\* An ended instance nothing refers to any more is garbage.
Collect(w) ==
    [w EXCEPT !.e.engines =
        [i \in EngineIds |->
            IF @[i].state = "idle" /\ i # w.v.recognition
               /\ i # w.v.commentRecognition
            THEN NoEngine ELSE @[i]]]

----------------------------------------------------------------------------
(* Main voice recognition: construction, start and stop.                   *)

initializeVoiceRecognition(w) ==
    LET id == FreshEngineId(w)
    IN  [NewEngine(w, id, "main") EXCEPT !.v.recognition = id]

startListening(w) ==
    IF w.v.recognition = 0 THEN w
    ELSE IF w.v.isListening THEN w
    ELSE LET w1 == updateStatus([w EXCEPT !.v.isEnabled = TRUE],
                                "Say \"Hey Schoology\" to activate")
         IN  IF StartThrows(w1, w1.v.recognition)
             THEN SetTimeout(updateStatus(w1, "Voice already running"),
                             "invalidStateRetry", InvalidStateRetryMs)
             ELSE IF StartRefused(w1)
             THEN SetTimeout(
                      updateStatus([w1 EXCEPT !.v.isEnabled = FALSE,
                                              !.o.fatal = TRUE],
                                   "Failed to start - click to retry"),
                      "autoRetry", AutoRetryMs)
             ELSE RecognitionStart(w1, w1.v.recognition)

stopListening(w) ==
    LET w1 == [w EXCEPT !.v.isEnabled = FALSE, !.v.isListening = FALSE]
    IN  IF w1.v.recognition # 0
        THEN RecognitionStop(w1, w1.v.recognition)
        ELSE w1

toggleVoiceRecognition(w) ==
    IF w.v.isEnabled THEN stopListening(w) ELSE startListening(w)

----------------------------------------------------------------------------
(* WakeGate.                                                               *)

activateWakeMode(w) == [w EXCEPT !.v.isAwake = TRUE, !.o.idle = 0]

deactivateWakeMode(w) ==
    LET w1 == [w EXCEPT !.v.isAwake = FALSE]
        w2 == IF w1.v.wakeWordTimeout # 0
              THEN [ClearTimeout(w1, "wake", w1.v.wakeWordTimeout)
                        EXCEPT !.v.wakeWordTimeout = 0]
              ELSE w1
    IN  updateStatus(w2, "Say \"Hey Schoology\" to activate")

\* this.wakeWordTimeout = setTimeout(() => this.deactivateWakeMode(), 10000)
setWakeWordTimeout(w) ==
    [SetTimeoutId(w, "wake", WakeTimeoutMs)
         EXCEPT !.v.wakeWordTimeout = FreshTimerId(w, "wake")]

\* if (this.wakeWordTimeout) { clearTimeout(...); this.wakeWordTimeout = setTimeout(...) }
resetWakeWordTimeout(w) ==
    IF w.v.wakeWordTimeout # 0
    THEN setWakeWordTimeout(ClearTimeout(w, "wake", w.v.wakeWordTimeout))
    ELSE w

----------------------------------------------------------------------------
(* CommentSession.                                                         *)

showCommentDialog(w) ==
    [w EXCEPT !.v.commentDialog = TRUE,
              !.v.commentRecognition = 0,
              !.v.commentTranscript = "",
              !.v.isRecordingComment = FALSE,
              !.o.session = [records |-> 0, reinits |-> 0]]

stopMainVoiceRecognition(w) ==
    LET w1 == [w EXCEPT !.v.isEnabled = FALSE, !.v.isListening = FALSE]
        id == w1.v.recognition
    IN  IF id # 0
        THEN [RecognitionStop([w1 EXCEPT !.e.engines[id].handlers = FALSE], id)
                  EXCEPT !.v.recognition = 0]
        ELSE w1

startCommentOnlyRecognition(w) ==
    LET id == FreshEngineId(w)
        w1 == [NewEngine(w, id, "comment") EXCEPT !.v.commentRecognition = id]
    IN  IF id = 0 \/ StartThrows(w1, id) \/ StartRefused(w1) THEN w1
        ELSE RecognitionStart(w1, id)

addComment(w) ==
    LET w1 == IF w.v.isSpeaking /\ ~w.v.isPaused THEN pauseSpeaking(w) ELSE w
        position ==
            IF w1.v.isSpeaking \/ w1.v.isPaused
            THEN Min(estimatedWordsSpoken(w1), Len(Split(w1.v.currentText)))
            ELSE 0
        w2 == [w1 EXCEPT !.v.currentCommentPosition = position]
        w3 == updateStatus(showCommentDialog(w2),
                           "Comment mode - say \"stop comment\" when done")
    IN  startCommentOnlyRecognition(stopMainVoiceRecognition(w3))

\* stopCommentAndSave from "Close dialog" on: after the comment was saved,
\* or at once when there is none to save
stopCommentAndSaveClose(w) ==
    LET w1 == [w EXCEPT !.v.commentDialog = FALSE, !.v.isEnabled = TRUE,
                        !.o.session.reinits = @ + 1]
    IN  SetTimeout(w1, "reinit", ReinitMs)

\* getCurrentAssignmentId() for a page whose URL names no assignment
AssignmentId == "unknown"

\* browserAPI.storage.local.set({voice_comments: this.comments}): the list as
\* it is now is handed to the storage; then names what the caller does once
\* the write has completed.
saveCommentsToStorage(w, then) ==
    IF w.e.saving # <<>> THEN [w EXCEPT !.e.overflow = TRUE]
    ELSE [w EXCEPT !.e.saving =
              Append(@, [payload |-> w.v.comments, then |-> then])]

\* saveComment with unshift in the place of push
saveComment_Prepend(w, text, then) ==
    LET now == w.e.now + 1
        comment == [ id |-> now, text |-> text,
                     position |-> w.v.currentCommentPosition,
                     timestamp |-> now,
                     fileName |-> IF w.e.cachedFileData THEN "file"
                                  ELSE "Unknown file",
                     assignmentId |-> AssignmentId ]
    IN  IF Len(w.v.comments) >= MaxComments THEN [w EXCEPT !.e.overflow = TRUE]
        ELSE saveCommentsToStorage(
                 [w EXCEPT !.e.now = now, !.v.comments = <<comment>> \o @,
                           !.o.session.records = @ + 1],
                 then)

\* saveComment up to its await; now stands for Date.now(), which differs
\* from one save to the next
saveComment(w, text, then) ==
    LET now == w.e.now + 1
        comment == [ id |-> now, text |-> text,
                     position |-> w.v.currentCommentPosition,
                     timestamp |-> now,
                     fileName |-> IF w.e.cachedFileData THEN "file"
                                  ELSE "Unknown file",
                     assignmentId |-> AssignmentId ]
    IN  IF Len(w.v.comments) >= MaxComments THEN [w EXCEPT !.e.overflow = TRUE]
        ELSE saveCommentsToStorage(
                 [w EXCEPT !.e.now = now, !.v.comments = Append(@, comment),
                           !.o.session.records = @ + 1],
                 then)

\* stopCommentAndSave without the test of the transcript
stopCommentAndSave_AlwaysSave(w) ==
    LET w1 == [w EXCEPT !.v.isRecordingComment = FALSE]
        w2 == IF w1.v.commentRecognition # 0
              THEN [RecognitionStop(w1, w1.v.commentRecognition)
                        EXCEPT !.v.commentRecognition = 0]
              ELSE w1
    IN  saveComment(w2, w2.v.commentTranscript, "close")

\* stopCommentAndSave up to the await of saveComment's storage write
stopCommentAndSave(w) ==
    LET w1 == [w EXCEPT !.v.isRecordingComment = FALSE]
        w2 == IF w1.v.commentRecognition # 0
              THEN [RecognitionStop(w1, w1.v.commentRecognition)
                        EXCEPT !.v.commentRecognition = 0]
              ELSE w1
    IN  IF Trim(w2.v.commentTranscript) # ""
        THEN saveComment(w2, w2.v.commentTranscript, "close")
        ELSE stopCommentAndSaveClose(updateStatus(w2, "No comment to save"))

\* loadCommentsFromStorage. The storage serves its requests in the order they
\* were made, so a read never overtakes a write; with one request in flight
\* at a time the read is one step.
loadCommentsFromStorage(w) ==
    IF w.e.saving # <<>> THEN [w EXCEPT !.e.overflow = TRUE]
    ELSE [w EXCEPT !.v.comments = w.e.stored]

\* showComments: the comments in storage are loaded and those of this
\* assignment displayed, each with its "Jump to Position" and delete buttons
showComments(w) ==
    LET w1 == loadCommentsFromStorage(w)
    IN  [w1 EXCEPT !.e.shown =
            SelectSeq(w1.v.comments,
                      LAMBDA c : c.assignmentId = AssignmentId)]

\* deleteComment and clearComments up to the await of the storage write
deleteComment(w, commentId) ==
    saveCommentsToStorage(
        [w EXCEPT !.v.comments = SelectSeq(@, LAMBDA c : c.id # commentId)],
        "show")

clearComments(w) ==
    saveCommentsToStorage([w EXCEPT !.v.comments = <<>>], "none")

\* What follows the await of a storage write.
afterStorageWrite(w, then) ==
    CASE then = "close" ->
            stopCommentAndSaveClose(
                updateStatus(updateStatus(w, "Comment saved at position"),
                             "Comment saved and dialog closed"))
      [] then = "show" -> updateStatus(showComments(w), "Comment deleted")
      [] OTHER -> updateStatus(w, "All comments cleared")

----------------------------------------------------------------------------
(* CommandRouter dispatch.                                                 *)

----------------------------------------------------------------------------
(* The file cache: the background script's listener (background.js) and    *)
(* the content script's listener for FILE_DETECTED.                        *)

\* The files of the page: baseFileId, the last segment of the file's URL.
FileIds == {"f1", "f2"}

\* `cached_file_${fileId}`
CacheKey(fileId) == "cached_file_" \o fileId

\* storage.local.set of one key, storage being the sequence of its entries:
\* the entry of the key is replaced, or a new one is made
storageSet(store, key, value) ==
    IF \E i \in DOMAIN store : store[i].key = key
    THEN [i \in DOMAIN store |->
             IF store[i].key = key THEN [key |-> key, value |-> value]
             ELSE store[i]]
    ELSE Append(store, [key |-> key, value |-> value])

\* storage.local.get of one key
storageHas(store, key) == \E i \in DOMAIN store : store[i].key = key

\* webRequest.onCompleted for a file of the Schoology CDN; active says
\* whether the active tab is a Schoology page
requestCompleted(w, fileId, active) ==
    LET alreadyCached == fileId \in w.e.cachedFiles
        fileData == [fileId |-> fileId, alreadyCached |-> alreadyCached]
        w1 == [w EXCEPT !.e.cachedFiles = @ \cup {fileId}]
    IN  IF ~active THEN w1
        ELSE IF Len(w1.e.messages) >= MaxMessages
        THEN [w1 EXCEPT !.e.overflow = TRUE]
        ELSE [w1 EXCEPT !.e.messages = Append(@, fileData)]

\* the FILE_DETECTED listener without its test of alreadyCached
fileDetected_AlwaysFetch(w, data) ==
    IF Len(w.e.fetches) >= MaxMessages THEN [w EXCEPT !.e.overflow = TRUE]
    ELSE [w EXCEPT !.e.fetches = Append(@, data.fileId),
                   !.o.fetched = Append(@, data.fileId)]

\* the FILE_DETECTED listener up to the await of its fetch; its read of
\* storage, which nothing else is waiting for, is one step
fileDetected(w, data) ==
    IF ~data.alreadyCached
    THEN IF Len(w.e.fetches) >= MaxMessages THEN [w EXCEPT !.e.overflow = TRUE]
         ELSE [w EXCEPT !.e.fetches = Append(@, data.fileId),
                        !.o.fetched = Append(@, data.fileId)]
    ELSE IF storageHas(w.e.fileStore, CacheKey(data.fileId))
    THEN [w EXCEPT !.e.cachedFileData = TRUE]
    ELSE w

\* the FILE_DETECTED listener from the answer to its fetch on: the file is
\* kept in cachedFileData and written to storage ("stored"), or kept while
\* the write fails ("unstored"), or the fetch has failed ("failed")
fetchReturned(w, fileId, outcome) ==
    CASE outcome = "stored" ->
            [w EXCEPT !.e.cachedFileData = TRUE,
                      !.e.fileStore =
                          storageSet(@, CacheKey(fileId),
                                     [cachedBlob |-> fileId,
                                      fileName |-> fileId])]
      [] outcome = "unstored" -> [w EXCEPT !.e.cachedFileData = TRUE]
      [] OTHER -> w

----------------------------------------------------------------------------
(* Text extraction (the functions at the head of content.js).              *)

\* The extensions extractText takes for an image's.
ImageExtensions == {"jpg", "jpeg", "png", "gif", "bmp", "tiff"}

\* Below this many characters the text PDF.js found is taken for none.
MinNativeLength == 10

\* String.prototype.startsWith
StartsWith(s, p) == Len(s) >= Len(p) /\ SubSeq(s, 1, Len(p)) = p

\* fileName.split('.').pop().toLowerCase(): what follows the last dot, and
\* the whole name when it has none
FileExtension(fileName) ==
    LET dots == {i \in 1..Len(fileName) : CharAt(fileName, i) = "."}
        last == IF dots = {} THEN 0
                ELSE CHOOSE i \in dots : \A j \in dots : j <= i
    IN  ToLowerCase(SubSeq(fileName, last + 1, Len(fileName)))

\* extractTextFromPDF for a document of one page whose text layer reads
\* pageText: fullText is pageText + '\n', trimmed.  (A document PDF.js cannot
\* read gives '', as a page without text does.)
extractTextFromPDF(pageText) == Trim(pageText)

\* extractTextFromImage for one page on which Tesseract recognizes text: the
\* page goes in under its header when it is not blank, and the whole is
\* trimmed.  (A failure of the conversion or of Tesseract gives '', as a
\* blank page does.)
extractTextFromImage(text) ==
    IF Trim(text) # "" THEN "--- Page 1 ---\n" \o Trim(text) ELSE ""

\* extractText up to its first await
extractText(w) ==
    LET f == w.e.file
        fileExtension == FileExtension(f.fileName)
        isImageFilename == fileExtension \in ImageExtensions
        isImageBlob == StartsWith(f.blobType, "image/")
        x == [stage |-> "idle", pdfText |-> "", result |-> "",
              ranNative |-> FALSE, ranOcr |-> FALSE]
    IN  IF isImageFilename \/ isImageBlob
        THEN [w EXCEPT !.e.extraction = [x EXCEPT !.stage = "image"]]
        ELSE IF fileExtension = "pdf" \/ f.blobType = "application/pdf"
        THEN [w EXCEPT !.e.extraction = [x EXCEPT !.stage = "native"]]
        ELSE [w EXCEPT !.e.extraction = [x EXCEPT !.stage = "done"]]

\* nativeReturned with a text of one character for little text
nativeReturned_AnyText(w) ==
    LET pdfText == extractTextFromPDF(w.e.file.pageText)
        x == [w.e.extraction EXCEPT !.ranNative = TRUE, !.pdfText = pdfText]
    IN  IF pdfText = "" \/ Len(Trim(pdfText)) < 1
        THEN [w EXCEPT !.e.extraction = [x EXCEPT !.stage = "ocr"]]
        ELSE [w EXCEPT !.e.extraction =
                           [x EXCEPT !.stage = "done", !.result = pdfText]]

\* extractText from the return of extractTextFromPDF on
nativeReturned(w) ==
    LET pdfText == extractTextFromPDF(w.e.file.pageText)
        x == [w.e.extraction EXCEPT !.ranNative = TRUE, !.pdfText = pdfText]
    IN  IF pdfText = "" \/ Len(Trim(pdfText)) < MinNativeLength
        THEN [w EXCEPT !.e.extraction = [x EXCEPT !.stage = "ocr"]]
        ELSE [w EXCEPT !.e.extraction =
                           [x EXCEPT !.stage = "done", !.result = pdfText]]

\* extractText from the return of extractTextFromImage on
ocrReturned(w) ==
    LET ocrText == extractTextFromImage(w.e.file.recognized)
        x == [w.e.extraction EXCEPT !.ranOcr = TRUE, !.stage = "done"]
    IN  IF w.e.extraction.stage = "image"
        THEN [w EXCEPT !.e.extraction = [x EXCEPT !.result = ocrText]]
        ELSE IF ocrText # "" /\ Len(Trim(ocrText)) > 0
        THEN [w EXCEPT !.e.extraction = [x EXCEPT !.result = ocrText]]
        ELSE [w EXCEPT !.e.extraction = [x EXCEPT !.result = x.pdfText]]

----------------------------------------------------------------------------
(* Summarizer.                                                             *)

\* What a template literal renders for a value that is undefined.
Undefined == "undefined"

\* The text a summarization API answers with.
ApiSummary == "Feedback"

\* The comments of the current assignment.
AssignmentComments(comments) ==
    SelectSeq(comments, LAMBDA c : c.assignmentId = AssignmentId)

\* charAt(0).toUpperCase() + slice(1)
Capitalize(s) ==
    IF s = "" THEN ""
    ELSE LET c == CharAt(s, 1)
         IN  (IF \E k \in DOMAIN LowerChars : LowerChars[k] = c
              THEN UpperChars[CHOOSE k \in DOMAIN LowerChars : LowerChars[k] = c]
              ELSE c) \o SubSeq(s, 2, Len(s))

\* generateLocalSummary, the sentence made of one comment
FormalComment(comment) ==
    LET text == Trim(ToLowerCase(comment.text))
    IN  IF Includes(text, "fix formatting") \/ Includes(text, "formatting")
        THEN "Please review the formatting of your assignment to ensure it follows proper academic standards."
        ELSE IF Includes(text, "good") \/ Includes(text, "great")
        THEN "Your work demonstrates good understanding of the concepts."
        ELSE IF Includes(text, "grammar") \/ Includes(text, "spelling")
        THEN "Please review your work for grammar and spelling errors before submission."
        ELSE IF Includes(text, "explain") \/ Includes(text, "more detail")
        THEN "Please provide more detailed explanations to support your arguments."
        ELSE IF Includes(text, "cite") \/ Includes(text, "source")
        THEN "Remember to properly cite your sources and provide references."
        ELSE IF Includes(text, "structure") \/ Includes(text, "organization")
        THEN "Please improve the organization and structure of your response."
        ELSE IF Includes(text, "answer") \/ Includes(text, "question")
        THEN "Please ensure you have fully addressed all parts of the question."
        ELSE IF Len(text) > 10 /\ (Includes(text, ".") \/ Includes(text, "!")
                                       \/ Includes(text, "?"))
        THEN Capitalize(comment.text)
        ELSE "Please " \o ToLowerCase(comment.text) \o "."

RECURSIVE JoinFormal(_, _, _)
JoinFormal(cs, i, n) ==
    IF i > n THEN "" ELSE FormalComment(cs[i]) \o " " \o JoinFormal(cs, i + 1, n)

generateLocalSummary(w) ==
    LET cs == AssignmentComments(w.v.comments)
        commentCount == Len(cs)
    IN  IF commentCount = 0
        THEN "I have reviewed your assignment and found it to demonstrate good understanding of the material. Keep up the excellent work!"
        ELSE IF commentCount = 1 THEN FormalComment(cs[1])
        ELSE IF commentCount = 2
        THEN FormalComment(cs[1]) \o " Additionally, "
                 \o ToLowerCase(FormalComment(cs[2]))
        ELSE "I have reviewed your assignment and have several areas for improvement. "
                 \o JoinFormal(cs, 1, commentCount - 1)
                 \o "Finally, " \o ToLowerCase(FormalComment(cs[commentCount]))

showSummaryDialog(w, summary) ==
    updateStatus([w EXCEPT !.v.summaryDialog = <<summary>>,
                           !.e.summarizing = "idle",
                           !.o.summary = "ended"],
                 "Summary generated successfully")

\* performSummarization's catch: the basic summary is shown
summarizationFailed(w) == showSummaryDialog(w, generateLocalSummary(w))

\* callOpenAIAPI up to its fetch: without a key it throws before its try, and
\* the error reaches performSummarization's catch
callOpenAIAPI(w) ==
    IF ~w.e.config.openaiKey THEN summarizationFailed(w)
    ELSE [w EXCEPT !.e.summarizing = "openai"]

\* callGeminiAPI up to its fetch: without a key it throws inside its try
callGeminiAPI(w) ==
    IF ~w.e.config.geminiKey THEN callOpenAIAPI(w)
    ELSE [w EXCEPT !.e.summarizing = "gemini"]

\* What a request to a summarization API ends in: a payload with the text, no
\* connection, a status that is not 2xx, a payload without the fields the
\* caller tests, and a payload with those fields but without the text.
ApiOutcomes == {"text", "network", "status", "shape", "notext"}

\* callGeminiAPI from the answer to its fetch on
geminiResponded(w, outcome) ==
    CASE outcome = "text" -> showSummaryDialog(w, ApiSummary)
      [] outcome = "notext" -> showSummaryDialog(w, Undefined)
      [] OTHER -> callOpenAIAPI(w)

\* callOpenAIAPI from the answer to its fetch on
openaiResponded(w, outcome) ==
    CASE outcome = "text" -> showSummaryDialog(w, ApiSummary)
      [] outcome = "notext" -> showSummaryDialog(w, Undefined)
      [] OTHER -> showSummaryDialog(w, generateLocalSummary(w))

\* performSummarization from the return of getPDFText on
pdfTextReturned(w, thrown) ==
    IF thrown THEN summarizationFailed(w) ELSE callGeminiAPI(w)

\* performSummarization up to its first await that is answered from outside:
\* getPDFText throws at once when no file is cached
performSummarization(w) ==
    IF AssignmentComments(w.v.comments) = <<>>
    THEN updateStatus(w, "No comments to summarize for this assignment")
    ELSE IF w.e.summarizing # "idle" THEN [w EXCEPT !.e.overflow = TRUE]
    ELSE LET w1 == updateStatus([w EXCEPT !.o.summary = "started"],
                                "Generating summary...")
         IN  IF ~w1.e.cachedFileData THEN summarizationFailed(w1)
             ELSE [w1 EXCEPT !.e.summarizing = "pdf"]

summarizeComments(w) == performSummarization(loadCommentsFromStorage(w))

RouterEffect(w, act) ==
    CASE act = "speakText" -> speakText(w)
      [] act = "pauseSpeaking" -> pauseSpeaking(w)
      [] act = "resumeSpeaking" -> resumeSpeaking(w)
      [] act = "skipSeconds(10)" -> skipSeconds(w, 10)
      [] act = "skipSeconds(-10)" -> skipSeconds(w, -10)
      [] act = "skipSeconds(5)" -> skipSeconds(w, 5)
      [] act = "skipSeconds(-5)" -> skipSeconds(w, -5)
      [] act = "skipSeconds(15)" -> skipSeconds(w, 15)
      [] act = "skipSeconds(-15)" -> skipSeconds(w, -15)
      [] act = "addComment" -> addComment(w)
      [] act = "showComments" -> showComments(w)
      [] act = "clearComments" -> clearComments(w)
      [] act = "summarizeComments" -> summarizeComments(w)
      [] act = "activateWakeMode" ->
            updateStatus(activateWakeMode(w),
                         "Hey Schoology! Listening for commands...")
      [] act = "unknown" ->
            updateStatus(w, "Unknown command. Say \"help\" for commands.")
      [] act = "deactivateWakeMode" -> deactivateWakeMode(w)
      [] OTHER -> w

\* A comment session is recording: addComment has shown the dialog and
\* made the session's engine, stopCommentAndSave has not dropped it yet.
InCommentSession(w) == w.v.commentDialog /\ w.v.commentRecognition # 0

processVoiceCommand(w, command) ==
    LET w1 == [w EXCEPT !.o.dispatched = Append(@, command), !.o.idle = 0]
    IN  IF w1.v.isRecordingComment
        THEN IF Includes(command, "end comment")
             \* this.endCommentRecording is not a function: TypeError
             THEN [w1 EXCEPT !.o.actions =
                                 Append(@, [act |-> "endCommentRecording",
                                            inComment |-> InCommentSession(w1)]),
                             !.o.uncaught = TRUE]
             ELSE w1
        ELSE LET act == RouterAction(command)
             IN  RouterEffect(
                     [w1 EXCEPT !.o.actions =
                                   Append(@, [act |-> act,
                                              inComment |-> InCommentSession(w1)])],
                     act)

----------------------------------------------------------------------------
(* Handlers of the main recognition engine (initializeVoiceRecognition).   *)

recognitionOnStart(w) == [w EXCEPT !.v.isListening = TRUE]

\* The wake word branch as it would be without its setTimeout: C4 fails.
wakeWordDetected_NoTimer(w) == activateWakeMode(w)

\* onresult, the wake word branch
wakeWordDetected(w) ==
    LET w1 == activateWakeMode(w)
        w2 == IF w1.v.wakeWordTimeout # 0
              THEN ClearTimeout(w1, "wake", w1.v.wakeWordTimeout)
              ELSE w1
    IN  updateStatus(setWakeWordTimeout(w2),
                     "Hey Schoology! Listening for commands...")

\* onresult, the branch of a final transcript while awake
onFinalTranscript(w, finalTranscript) ==
    LET pending == \E t \in w.e.timers : t.kind = "command"
        w0 == [w EXCEPT !.o.heard.state =
                            IF pending THEN "superseded" ELSE "none"]
        w1 == processVoiceCommand(w0, Trim(ToLowerCase(finalTranscript)))
    IN  IF w1.o.uncaught THEN w1
        ELSE resetWakeWordTimeout(updateStatus(w1, "Command processed"))

\* The debounce as it would be without clearTimeout(this.commandTimeout):
\* C6 fails.
setCommandTimeout_NoClear(w) ==
    [SetTimeoutId(w, "command", CommandTimeoutMs)
         EXCEPT !.v.commandTimeout = FreshTimerId(w, "command")]

\* this.commandTimeout = setTimeout(..., 1500)
setCommandTimeout(w) ==
    LET w1 == IF w.v.commandTimeout # 0
              THEN ClearTimeout(w, "command", w.v.commandTimeout)
              ELSE w
    IN  [SetTimeoutId(w1, "command", CommandTimeoutMs)
             EXCEPT !.v.commandTimeout = FreshTimerId(w1, "command")]

\* onresult, the branch of an interim transcript while awake
onInterimTranscript(w, interimTranscript) ==
    LET lowerInterim == Trim(ToLowerCase(interimTranscript))
        urgent == \E k \in DOMAIN urgentCommands :
                      Includes(lowerInterim, urgentCommands[k])
        w1 == [updateStatus(w, "Hearing: " \o interimTranscript)
                  EXCEPT !.v.lastInterimCommand = lowerInterim,
                        !.o.heard = [text |-> lowerInterim,
                                     state |-> IF urgent THEN "urgent"
                                               ELSE "waiting",
                                     sent |-> <<>>]]
        w2 == setCommandTimeout(w1)
    IN  IF urgent
        THEN LET w3 == processVoiceCommand(w2, lowerInterim)
                 w4 == IF w3.v.commandTimeout # 0
                       THEN [ClearTimeout(w3, "command", w3.v.commandTimeout)
                                 EXCEPT !.v.commandTimeout = 0]
                       ELSE w3
             IN  IF w3.o.uncaught THEN w3
                 ELSE resetWakeWordTimeout(updateStatus(w4, "Urgent command"))
        ELSE w2

\* onresult as it would be without the return of lines 613-618: C3 fails.
recognitionOnResult_Ungated(w, finalTranscript, interimTranscript) ==
    LET fullText == Trim(ToLowerCase(finalTranscript \o interimTranscript))
    IN  IF ~w.v.isAwake /\ Includes(fullText, wakeWord)
        THEN wakeWordDetected(w)
        ELSE IF finalTranscript # "" THEN onFinalTranscript(w, finalTranscript)
        ELSE IF interimTranscript # ""
        THEN onInterimTranscript(w, interimTranscript)
        ELSE w

recognitionOnResult(w, finalTranscript, interimTranscript) ==
    LET fullText == Trim(ToLowerCase(finalTranscript \o interimTranscript))
    IN  IF ~w.v.isAwake /\ Includes(fullText, wakeWord)
        THEN wakeWordDetected(w)
        ELSE IF ~w.v.isAwake
        THEN IF interimTranscript # ""
             THEN updateStatus(w, "Say \"Hey Schoology\" to activate")
             ELSE w
        ELSE IF finalTranscript # "" THEN onFinalTranscript(w, finalTranscript)
        ELSE IF interimTranscript # ""
        THEN onInterimTranscript(w, interimTranscript)
        ELSE w

\* the callback of commandTimeout
commandTimeoutFired(w) ==
    IF w.v.lastInterimCommand # ""
    THEN LET w0 == [w EXCEPT !.o.heard.sent =
                                 Append(@, w.v.lastInterimCommand)]
             w1 == processVoiceCommand(w0, w0.v.lastInterimCommand)
         IN  IF w1.o.uncaught THEN w1
             ELSE resetWakeWordTimeout(
                      [updateStatus(w1, "Command processed (timeout)")
                           EXCEPT !.v.lastInterimCommand = ""])
    ELSE w

recognitionOnError(w, error) ==
    LET w1 == [w EXCEPT !.v.isListening = FALSE]
    IN  IF error = "no-speech" \/ error = "audio-capture"
        THEN LET w2 == updateStatus(w1, "Error: " \o error
                                            \o " - restarting...")
             IN  IF w2.v.isEnabled
                 THEN SetTimeout(w2, "errorRestart", ErrorRestartMs)
                 ELSE w2
        ELSE [updateStatus(w1, "Error: " \o error)
                  EXCEPT !.v.isEnabled = FALSE, !.o.fatal = TRUE]

recognitionOnEnd(w) ==
    LET w1 == [w EXCEPT !.v.isListening = FALSE]
    IN  IF w1.v.isEnabled /\ ~w1.v.isRecordingComment
        THEN SetTimeout(
                 updateStatus(w1, "Voice recognition stopped - restarting..."),
                 "endRestart", EndRestartMs)
        ELSE updateStatus(w1, "Voice recognition stopped")

(* Handlers of the comment session's engine (startCommentOnlyRecognition). *)

commentOnStart(w) == [w EXCEPT !.v.isRecordingComment = TRUE]

commentOnResult(w, finalTranscript, interimTranscript) ==
    LET fullText == ToLowerCase(finalTranscript \o interimTranscript)
    IN  IF Includes(fullText, "stop comment")
        THEN IF w.v.isRecordingComment THEN stopCommentAndSave(w) ELSE w
        ELSE IF finalTranscript # ""
        THEN IF Len(w.v.commentTranscript) + Len(finalTranscript) + 1
                    > MaxTranscript
             THEN [w EXCEPT !.e.overflow = TRUE]
             ELSE [w EXCEPT !.v.commentTranscript =
                                @ \o finalTranscript \o " "]
        ELSE w

commentOnError(w) == stopCommentAndSave(w)

\* commentRecognition.onend without the restart
commentOnEnd_NoRestart(w) == w

commentOnEnd(w) ==
    IF w.v.isRecordingComment
    THEN SetTimeout(w, "commentRestart", CommentRestartMs)
    ELSE w

(* Callbacks of the timers that restart an engine.                         *)

errorRestartFired(w) == IF w.v.isEnabled THEN startListening(w) ELSE w

\* setTimeout(() => { if (!this.isEnabled) this.startListening() }, 2000)
autoRetryFired(w) == IF ~w.v.isEnabled THEN startListening(w) ELSE w

endRestartFired(w) ==
    IF w.v.isEnabled /\ ~w.v.isRecordingComment THEN startListening(w) ELSE w

invalidStateRetryFired(w) ==
    IF w.v.isEnabled /\ ~w.v.isListening THEN startListening(w) ELSE w

\* this.commentRecognition.start(): a TypeError when the field is null, an
\* InvalidStateError when the instance is not idle; nothing catches either
commentRestartFired(w) ==
    IF w.v.isRecordingComment
    THEN IF w.v.commentRecognition = 0
            \/ StartThrows(w, w.v.commentRecognition)
            \/ StartRefused(w)
         THEN [w EXCEPT !.o.uncaught = TRUE]
         ELSE RecognitionStart(w, w.v.commentRecognition)
    ELSE w

reinitFired(w) ==
    IF w.v.isEnabled
    THEN startListening(initializeVoiceRecognition(w))
    ELSE w

(* Handlers of an utterance (startSpeaking).                               *)

\* onstart as it would be without isPaused = false: a narration started
\* over a paused one is both speaking and paused.
utteranceOnStart_KeepPaused(w) == [w EXCEPT !.v.isSpeaking = TRUE]

utteranceOnStart(w) == [w EXCEPT !.v.isSpeaking = TRUE, !.v.isPaused = FALSE]

utteranceOnEnd(w) ==
    updateStatus([w EXCEPT !.v.isSpeaking = FALSE, !.v.isPaused = FALSE],
                 "Finished reading")

utteranceOnError(w, error) ==
    IF error # "interrupted"
    THEN updateStatus([w EXCEPT !.v.isSpeaking = FALSE, !.v.isPaused = FALSE],
                      "Speech error")
    ELSE w

----------------------------------------------------------------------------
(* The state machine.                                                      *)

\* Positions of the comments earlier sessions left in storage.
StoredPositions == <<3, 12>>

\* The records of those comments, as storage holds them.
StoredComments ==
    [i \in DOMAIN StoredPositions |->
        [ id |-> i, text |-> "old", position |-> StoredPositions[i],
          timestamp |-> i, fileName |-> "file",
          assignmentId |-> AssignmentId ]]

\* The fields as the constructor leaves them.
InitVcs ==
    [ recognition |-> 1, isListening |-> FALSE, isEnabled |-> FALSE,
        isAwake |-> FALSE, wakeWordTimeout |-> 0, commandTimeout |-> 0,
        lastInterimCommand |-> "",
        currentUtterance |-> FALSE, isSpeaking |-> FALSE,
        isPaused |-> FALSE, currentText |-> "", currentPosition |-> 0,
        ttsControls |-> FALSE,
        commentDialog |-> FALSE, currentCommentPosition |-> 0,
        commentRecognition |-> 0, commentTranscript |-> "",
        isRecordingComment |-> FALSE, comments |-> <<>>,
        summaryDialog |-> <<>> ]

\* The browser when the page has loaded: the file's name, type and contents
\* and the API keys of config.js are what they are for the whole run.
InitEnv(docText) ==
    [ timers |-> {},
        engines |-> [i \in EngineIds |->
                       IF i = 1
                       THEN [state |-> "idle", kind |-> "main",
                             handlers |-> TRUE]
                       ELSE NoEngine],
        utterances |-> <<>>, late |-> 0, sinceSpeechStart |-> 0,
        docText |-> docText,
        cachedFileData |-> FALSE, startRefused |-> FALSE,
        extracting |-> 0, saving |-> <<>>,
        stored |-> StoredComments, shown |-> <<>>,
        now |-> Len(StoredComments),
        summarizing |-> "idle",
        cachedFiles |-> {}, messages |-> <<>>, fetches |-> <<>>,
        fileStore |-> <<>>,
        file |-> [fileName |-> "file.pdf", blobType |-> "application/pdf",
                  pageText |-> docText, recognized |-> ""],
        extraction |-> [stage |-> "idle", pdfText |-> "", result |-> "",
                        ranNative |-> FALSE, ranOcr |-> FALSE],
        config |-> [geminiKey |-> FALSE, openaiKey |-> FALSE],
        overflow |-> FALSE ]

InitObs ==
    [ ev |-> "init", arg |-> "", final |-> FALSE, src |-> 0,
        pre |-> [isAwake |-> FALSE, isSpeaking |-> FALSE,
                 isPaused |-> FALSE],
        dispatched |-> <<>>, actions |-> <<>>, spoken |-> <<>>,
        started |-> <<>>, uncaught |-> FALSE, skips |-> <<>>,
        userOff |-> FALSE, fatal |-> FALSE, status |-> "",
        summary |-> "none", fetched |-> <<>>, idle |-> 0,
        heard |-> [text |-> "", state |-> "none", sent |-> <<>>],
        session |-> [records |-> 0, reinits |-> 0] ]

InitConfigured(docText, geminiKey, openaiKey) ==
    /\ vcs = InitVcs
    /\ env = [InitEnv(docText) EXCEPT
                  !.config = [geminiKey |-> geminiKey, openaiKey |-> openaiKey]]
    /\ obs = InitObs

\* The page as the repository ships it: config.js holds no API key.
InitWith(docText) == InitConfigured(docText, FALSE, FALSE)

Init == InitWith(ShortText)

\* The world a handler starts from: nothing observed yet.
Begin(ev, arg, final) ==
    [ v |-> vcs, e |-> env,
      o |-> [obs EXCEPT !.ev = ev, !.arg = arg, !.final = final, !.src = 0,
                        !.pre = [isAwake |-> vcs.isAwake,
                                 isSpeaking |-> vcs.isSpeaking,
                                 isPaused |-> vcs.isPaused],
                        !.dispatched = <<>>, !.actions = <<>>,
                        !.spoken = <<>>, !.started = <<>>,
                        !.uncaught = FALSE,
                        !.userOff = IF ev = "toggle" THEN vcs.isEnabled
                                    ELSE @,
                        !.fatal = IF ev = "toggle" THEN FALSE ELSE @,
                        !.status = "", !.summary = "none",
                        !.fetched = <<>>,
                        !.skips = IF ev = "click" /\ arg = "skip"
                                  THEN @ ELSE <<>>] ]

\* The world a handler ends in becomes the next state.
Commit(w) ==
    /\ ~w.e.overflow
    /\ LET c == Collect(w)
       IN  /\ vcs' = c.v
           /\ env' = c.e
           /\ obs' = [c.o EXCEPT !.idle = IF c.v.isAwake THEN @ ELSE 0]

WakeTicks == Ticks(WakeTimeoutMs)

\* Date.now() - this.speechStartTime after time has passed: there is no
\* speechStartTime before the first startSpeaking
SpeechClock(elapsed) ==
    IF vcs.currentUtterance THEN Min(elapsed, ElapsedCap(env.docText)) ELSE 0

\* Half a second passes; a timer that is due fires first.
Tick ==
    /\ \A t \in env.timers : t.left > 0
    /\ LET w == Begin("tick", "", FALSE)
       IN  Commit([w EXCEPT
               !.e.timers = {[t EXCEPT !.left = @ - 1] : t \in @},
               !.e.sinceSpeechStart = SpeechClock(@ + 1),
               !.o.idle = Min(@ + 1, WakeTicks + 1)])

\* Time passes until the next timer is due.
Elapse ==
    /\ env.timers # {}
    /\ \A t \in env.timers : t.left > 0
    /\ LET d == CHOOSE d \in {t.left : t \in env.timers} :
                    \A t \in env.timers : d <= t.left
           w == Begin("tick", "", FALSE)
       IN  Commit([w EXCEPT
               !.e.timers = {[t EXCEPT !.left = @ - d] : t \in @},
               !.e.sinceSpeechStart = SpeechClock(@ + d),
               !.o.idle = Min(@ + d, WakeTicks + 1)])

TimerCallback(w, kind) ==
    CASE kind = "wake" -> deactivateWakeMode(w)
      [] kind = "command" -> commandTimeoutFired(w)
      [] kind = "errorRestart" -> errorRestartFired(w)
      [] kind = "autoRetry" -> autoRetryFired(w)
      [] kind = "endRestart" -> endRestartFired(w)
      [] kind = "invalidStateRetry" -> invalidStateRetryFired(w)
      [] kind = "commentRestart" -> commentRestartFired(w)
      [] kind = "reinit" -> reinitFired(w)

TimerFired ==
    \E t \in env.timers :
        /\ t.left = 0
        /\ LET w == Begin("timer", t.kind, FALSE)
               rest == IF t.n > 1 THEN {[t EXCEPT !.n = @ - 1]} ELSE {}
           IN  Commit(TimerCallback(
                   [w EXCEPT !.e.timers = (@ \ {t}) \cup rest], t.kind))

\* The router runs speakText (the user said "speak" while awake).
SpeakText ==
    Commit(processVoiceCommand(Begin("command", "speak", TRUE), "speak"))

\* The router runs addComment (no session is open: in a session there is no
\* main engine to hear the command).
AddComment ==
    /\ ~vcs.commentDialog
    /\ Commit(processVoiceCommand(Begin("command", "add comment", TRUE),
                                  "add comment"))

\* The router runs showComments.
ShowComments ==
    /\ ~vcs.commentDialog
    /\ Commit(processVoiceCommand(Begin("command", "show comments", TRUE),
                                  "show comments"))

\* The router runs summarizeComments.
SummarizeComments ==
    /\ ~vcs.commentDialog
    /\ Commit(processVoiceCommand(Begin("command", "summarize comments", TRUE),
                                  "summarize comments"))

\* getPDFText returns to performSummarization, with the text or with an error
PdfTextReturned ==
    \E thrown \in BOOLEAN :
        /\ env.summarizing = "pdf"
        /\ Commit(pdfTextReturned(
               Begin("pdftext", IF thrown THEN "error" ELSE "text", FALSE),
               thrown))

\* The fetch of callGeminiAPI is answered.
GeminiResponded ==
    \E outcome \in ApiOutcomes :
        /\ env.summarizing = "gemini"
        /\ Commit(geminiResponded(Begin("gemini", outcome, FALSE), outcome))

\* The fetch of callOpenAIAPI is answered.
OpenAIResponded ==
    \E outcome \in ApiOutcomes :
        /\ env.summarizing = "openai"
        /\ Commit(openaiResponded(Begin("openai", outcome, FALSE), outcome))

\* A request for a file of the page completes; the background script sees it.
RequestCompleted ==
    \E fileId \in FileIds, active \in BOOLEAN :
        Commit(requestCompleted(Begin("request", fileId, active),
                                fileId, active))

\* The content script receives a FILE_DETECTED message.
FileMessageDelivered ==
    /\ env.messages # <<>>
    /\ LET data == Head(env.messages)
           w == Begin("fileDetected", data.fileId, data.alreadyCached)
       IN  Commit(fileDetected([w EXCEPT !.e.messages = Tail(@)], data))

\* A fetch of the content script is answered.
FetchReturned ==
    \E outcome \in {"stored", "unstored", "failed"} :
        /\ env.fetches # <<>>
        /\ LET fileId == Head(env.fetches)
               w == Begin("fetched", fileId, FALSE)
           IN  Commit(fetchReturned([w EXCEPT !.e.fetches = Tail(@)],
                                    fileId, outcome))

\* The browser stops the background script and starts it anew: its set of
\* cached files is empty again, storage is as it was.
BackgroundRestarted ==
    /\ env.cachedFiles # {}
    /\ Commit([Begin("restart", "", FALSE) EXCEPT !.e.cachedFiles = {}])

\* extractText is called for the file of the page.
ExtractTextCalled ==
    /\ env.extraction.stage \in {"idle", "done"}
    /\ Commit(extractText(Begin("extractText", env.file.fileName, FALSE)))

\* extractTextFromPDF returns to extractText.
NativeReturned ==
    /\ env.extraction.stage = "native"
    /\ Commit(nativeReturned(Begin("native", "", FALSE)))

\* extractTextFromImage returns to extractText.
OcrReturned ==
    /\ env.extraction.stage \in {"image", "ocr"}
    /\ Commit(ocrReturned(Begin("ocr", "", FALSE)))

\* The user clicks the voice toggle button.
ToggleVoice == Commit(toggleVoiceRecognition(Begin("toggle", "", FALSE)))

\* The background script reports a file, which is fetched and cached.
FileDetected ==
    /\ ~env.cachedFileData
    /\ Commit([Begin("file", "", FALSE) EXCEPT !.e.cachedFileData = TRUE])

\* The platform begins, or ceases, to refuse recognition.start().
StartRefusal ==
    Commit([Begin("refusal", "", FALSE) EXCEPT !.e.startRefused = ~@])

\* The engine instance id delivers an event: the handler attached to it, if
\* any, runs.
EngineHandler(w0, id, ev, a, b) ==
    LET g == w0.e.engines[id]
        w == [w0 EXCEPT !.o.src = id]
    IN  IF ~g.handlers THEN w
        ELSE IF g.kind = "main"
        THEN CASE ev = "start" -> recognitionOnStart(w)
               [] ev = "result" -> recognitionOnResult(w, a, b)
               [] ev = "error" -> recognitionOnError(w, a)
               [] ev = "end" -> recognitionOnEnd(w)
        ELSE CASE ev = "start" -> commentOnStart(w)
               [] ev = "result" -> commentOnResult(w, a, b)
               [] ev = "error" -> commentOnError(w)
               [] ev = "end" -> commentOnEnd(w)

EngineStarted ==
    \E id \in EngineIds :
        /\ env.engines[id].state = "starting"
        /\ LET w == Begin("start", "", FALSE)
           IN  Commit(EngineHandler(
                   [w EXCEPT !.e.engines[id].state = "listening"],
                   id, "start", "", ""))

\* An engine reports a transcript, final or interim, out of the set U.
EngineResult(U) ==
    \E id \in EngineIds, u \in U, final \in BOOLEAN :
        /\ env.engines[id].state \in {"listening", "stopping"}
        /\ env.engines[id].handlers
        /\ LET w == Begin(env.engines[id].kind, u, final)
           IN  Commit(EngineHandler(w, id, "result",
                                    IF final THEN u ELSE "",
                                    IF final THEN "" ELSE u))

\* An engine reports a final transcript out of the set U.
EngineFinal(U) ==
    \E id \in EngineIds, u \in U :
        /\ env.engines[id].state \in {"listening", "stopping"}
        /\ env.engines[id].handlers
        /\ LET w == Begin(env.engines[id].kind, u, TRUE)
           IN  Commit(EngineHandler(w, id, "result", u, ""))

RecognitionErrors == {"no-speech", "network"}

\* An engine of one kind fails.
EngineErrorOf(kind) ==
    \E id \in EngineIds, error \in RecognitionErrors :
        /\ env.engines[id].kind = kind
        /\ env.engines[id].state \in {"starting", "listening"}
        /\ LET w == Begin("error", error, FALSE)
           IN  Commit(EngineHandler(
                   [w EXCEPT !.e.engines[id].state = "stopping"],
                   id, "error", error, ""))

EngineError == \E kind \in {"main", "comment"} : EngineErrorOf(kind)

\* An engine that stop() has stopped fails before it ends (the service fails
\* on the audio captured so far): its error event comes before its end event.
EngineErrorAfterStop(kind) ==
    \E id \in EngineIds, error \in RecognitionErrors :
        /\ env.engines[id].kind = kind
        /\ env.engines[id].state = "stopping"
        /\ LET w == Begin("error", error, FALSE)
           IN  Commit(EngineHandler(
                   [w EXCEPT !.e.engines[id].state = "failed"],
                   id, "error", error, ""))

\* A listening engine of one kind ends by itself (the speaker paused).
EngineEndOf(kind) ==
    \E id \in EngineIds :
        /\ env.engines[id].kind = kind
        /\ env.engines[id].state = "listening"
        /\ LET w == Begin("end", "", FALSE)
           IN  Commit(EngineHandler(
                   [w EXCEPT !.e.engines[id].state = "idle"],
                   id, "end", "", ""))

EngineEnd == \E kind \in {"main", "comment"} : EngineEndOf(kind)

\* The end event of an engine that was stopped or that failed.
EngineStopped ==
    \E id \in EngineIds :
        /\ env.engines[id].state \in {"stopping", "failed"}
        /\ LET w == Begin("end", "stopped", FALSE)
           IN  Commit(EngineHandler(
                   [w EXCEPT !.e.engines[id].state = "idle"],
                   id, "end", "", ""))

\* A storage write completes: storage holds the list that was handed to it,
\* and the function that awaited the write goes on.
StorageWritten ==
    /\ Len(env.saving) > 0
    /\ LET job == Head(env.saving)
           w == Begin("saved", job.then, FALSE)
       IN  Commit(afterStorageWrite(
               [w EXCEPT !.e.saving = Tail(@), !.e.stored = job.payload],
               job.then))

\* A storage write fails: storage.local.set rejects, saveCommentsToStorage
\* catches and logs the error, and the function that awaited it goes on as
\* after a write that succeeded.  Storage keeps what it held.
StorageFailed ==
    /\ Len(env.saving) > 0
    /\ LET job == Head(env.saving)
           w == Begin("savefail", job.then, FALSE)
       IN  Commit(afterStorageWrite([w EXCEPT !.e.saving = Tail(@)],
                                    job.then))

\* extractText returns to speakText, with the text or with none
ExtractDone ==
    \E text \in {env.docText, ""} :
        /\ env.extracting > 0
        /\ LET w == speakTextExtracted(Begin("extracted", text, FALSE), text)
           IN  Commit([w EXCEPT !.v.ttsControls = @ \/ text # ""])

SynthStart ==
    /\ Len(env.utterances) > 0
    /\ env.utterances[1].state = "queued"
    /\ LET w == Begin("synth", "start", FALSE)
       IN  Commit(utteranceOnStart(
               [w EXCEPT !.e.utterances[1].state = "speaking"]))

SynthEnd ==
    /\ Len(env.utterances) > 0
    /\ env.utterances[1].state = "speaking"
    /\ LET w == Begin("synth", "end", FALSE)
       IN  Commit(utteranceOnEnd([w EXCEPT !.e.utterances = Tail(@)]))

SynthError ==
    /\ Len(env.utterances) > 0
    /\ LET w == Begin("synth", "synthesis-failed", FALSE)
       IN  Commit(utteranceOnError([w EXCEPT !.e.utterances = Tail(@)],
                                   "synthesis-failed"))

\* The event of an utterance that cancel() removed is delivered: its end,
\* or an error that names the cancellation.
SynthLate ==
    \E error \in {"end", "interrupted", "canceled"} :
        /\ env.late > 0
        /\ LET w == [Begin("late", error, FALSE) EXCEPT !.e.late = @ - 1]
           IN  Commit(IF error = "end" THEN utteranceOnEnd(w)
                      ELSE utteranceOnError(w, error))

(* The buttons of the text reader panel and of the comment list.           *)

ClickPause ==
    vcs.ttsControls /\ Commit(pauseSpeaking(Begin("click", "pause", FALSE)))

ClickResume ==
    vcs.ttsControls /\ Commit(resumeSpeaking(Begin("click", "resume", FALSE)))

ClickSkip ==
    \E seconds \in {10, -10} :
        vcs.ttsControls
        /\ Commit(skipSeconds(Begin("click", "skip", seconds > 0), seconds))

ClickStop ==
    vcs.ttsControls /\ Commit(stopSpeaking(Begin("click", "stop", FALSE)))

ClickJump ==
    \E i \in DOMAIN env.shown :
        Commit(jumpToComment(Begin("click", "jump", FALSE),
                             env.shown[i].position))

\* The delete button of a displayed comment.
ClickDelete ==
    \E i \in DOMAIN env.shown :
        Commit(deleteComment(Begin("click", "delete", FALSE), env.shown[i].id))

\* The router runs clearComments.
ClearComments ==
    /\ ~vcs.commentDialog
    /\ Commit(processVoiceCommand(Begin("command", "clear comments", TRUE),
                                  "clear comments"))

Next ==
    \/ Tick
    \/ TimerFired
    \/ ToggleVoice
    \/ FileDetected
    \/ EngineStarted
    \/ EngineResult(Utterances)
    \/ EngineError
    \/ \E kind \in {"main", "comment"} : EngineErrorAfterStop(kind)
    \/ EngineEnd
    \/ EngineStopped
    \/ StorageWritten
    \/ StorageFailed
    \/ PdfTextReturned
    \/ GeminiResponded
    \/ OpenAIResponded
    \/ ExtractTextCalled
    \/ NativeReturned
    \/ OcrReturned
    \/ RequestCompleted
    \/ FileMessageDelivered
    \/ FetchReturned
    \/ BackgroundRestarted
    \/ ExtractDone
    \/ SynthStart
    \/ SynthEnd
    \/ SynthError
    \/ SynthLate
    \/ ClickPause
    \/ ClickResume
    \/ ClickSkip
    \/ ClickStop
    \/ ClickJump
    \/ ClickDelete
    \/ ClearComments
    \/ StartRefusal

Spec == Init /\ [][Next]_vars

\* The user switches voice control on.
TurnOn == ~vcs.isEnabled /\ ToggleVoice

(* The wake gate alone: the main engine's results and end, and the        *)
(* timers, with the clock in steps of TickMs.                              *)
NextWake ==
    \/ Tick
    \/ TimerFired
    \/ TurnOn
    \/ EngineStarted
    \/ EngineResult(WakeUtterances)
    \/ EngineEnd

SpecWake == Init /\ [][NextWake]_vars

(* Playback alone: every way into the playback operations (the router's    *)
(* speakText, the panel's buttons, the comment list's jump buttons) and    *)
(* the synthesis engine's events.                                          *)
NextPlayback ==
    \/ Tick
    \/ FileDetected
    \/ SpeakText
    \/ ExtractDone
    \/ SynthStart
    \/ SynthEnd
    \/ SynthError
    \/ SynthLate
    \/ ClickPause
    \/ ClickResume
    \/ ClickSkip
    \/ ClickStop
    \/ ShowComments
    \/ ClickJump

SpecPlayback == InitWith(LongText) /\ [][NextPlayback]_vars

(* Comment sessions: both engines, with time passing from one timer to the *)
(* next.                                                                   *)
NextSession ==
    \/ Elapse
    \/ TimerFired
    \/ TurnOn
    \/ EngineStarted
    \/ EngineResult(SessionUtterances)
    \/ StorageWritten

SpecSession == Init /\ [][NextSession]_vars

(* Urgent commands during playback.                                        *)
NextUrgent ==
    \/ Elapse
    \/ TimerFired
    \/ TurnOn
    \/ FileDetected
    \/ EngineStarted
    \/ EngineResult(UrgentUtterances)
    \/ ExtractDone
    \/ SynthStart
    \/ SynthEnd

SpecUrgent == Init /\ [][NextUrgent]_vars

(* Engines torn down and made anew: comment sessions entered and left by   *)
(* final transcripts, engines ending by themselves and on stop().          *)
NextTeardown ==
    \/ Elapse
    \/ TimerFired
    \/ TurnOn
    \/ EngineStarted
    \/ EngineFinal(TeardownUtterances)
    \/ EngineEnd
    \/ EngineStopped

SpecTeardown == Init /\ [][NextTeardown]_vars

(* Comments: sessions entered and left by final transcripts or left by an  *)
(* error of the comment engine, the comment engine ending by itself, and   *)
(* the stored list shown, cleared and shortened.                           *)
NextComments ==
    \/ Elapse
    \/ TimerFired
    \/ TurnOn
    \/ EngineStarted
    \/ EngineFinal(CommentUtterances)
    \/ EngineErrorOf("comment")
    \/ EngineEndOf("comment")
    \/ StorageWritten

SpecComments == Init /\ [][NextComments]_vars

(* The ways out of a comment session: the stop phrase, alone or after the  *)
(* words of a comment, and the error of the session's engine, which may    *)
(* follow the stop() of the exit.                                          *)
ExitUtterances == {"a long note", "stop comment", "fix stop comment"}

NextExit ==
    \/ Elapse
    \/ TimerFired
    \/ AddComment
    \/ EngineStarted
    \/ EngineFinal(ExitUtterances)
    \/ EngineErrorAfterStop("comment")
    \/ StorageWritten

SpecExit == Init /\ [][NextExit]_vars

(* The voice toggle around comment sessions: the user switches voice       *)
(* control on and off at any moment, also in the second between the exit   *)
(* of a session and the re-creation of the main engine.                    *)
NextToggle ==
    \/ Elapse
    \/ TimerFired
    \/ ToggleVoice
    \/ EngineStarted
    \/ EngineFinal(TeardownUtterances)

SpecToggle == Init /\ [][NextToggle]_vars

(* Comment sessions on a platform that may refuse recognition.start(): the *)
(* start of the session's engine throws after the main engine was torn     *)
(* down.                                                                    *)
NextStartFail ==
    \/ Elapse
    \/ TimerFired
    \/ TurnOn
    \/ StartRefusal
    \/ EngineStarted
    \/ EngineFinal(TeardownUtterances)

SpecStartFail == Init /\ [][NextStartFail]_vars

(* Comment sessions whose storage writes succeed or fail.                  *)
NextStorage ==
    \/ Elapse
    \/ TimerFired
    \/ TurnOn
    \/ EngineStarted
    \/ EngineFinal(CommentUtterances)
    \/ StorageWritten
    \/ StorageFailed

SpecStorage == Init /\ [][NextStorage]_vars

(* Comments made during playback: the text is spoken or paused, and a      *)
(* comment session is opened by the router and left by "stop comment";     *)
(* time passes from one timer to the next.                                 *)
NextAnchor ==
    \/ Elapse
    \/ TimerFired
    \/ FileDetected
    \/ SpeakText
    \/ ExtractDone
    \/ SynthStart
    \/ ClickPause
    \/ AddComment
    \/ EngineStarted
    \/ EngineFinal(AnchorUtterances)
    \/ StorageWritten

SpecAnchor == InitWith(ShortText) /\ [][NextAnchor]_vars

(* The comment list: comments saved in sessions that the router opens,     *)
(* and the list shown, shortened and cleared.  The router's commands are   *)
(* taken as given, and no timer comes due: the main engine and the wake    *)
(* gate are left to the specifications above.                              *)
NextStore ==
    \/ AddComment
    \/ ShowComments
    \/ ClearComments
    \/ ClickDelete
    \/ EngineStarted
    \/ EngineFinal(AnchorUtterances)
    \/ StorageWritten

SpecStore == Init /\ [][NextStore]_vars

(* Retries: the main engine fails, recoverably or fatally, or cannot be     *)
(* started, and the user switches voice control on and off.                *)
NextRetry ==
    \/ Elapse
    \/ TimerFired
    \/ ToggleVoice
    \/ StartRefusal
    \/ EngineStarted
    \/ EngineErrorOf("main")
    \/ EngineStopped

SpecRetry == Init /\ [][NextRetry]_vars

(* Going to sleep: the wake gate with the commands that close it.          *)
NextSleep ==
    \/ Elapse
    \/ TimerFired
    \/ TurnOn
    \/ EngineStarted
    \/ EngineResult(SleepUtterances)

SpecSleep == Init /\ [][NextSleep]_vars

(* The router: the documented commands and the counted skips as the final *)
(* transcripts of the main engine.                                         *)
NextRouter ==
    \/ Elapse
    \/ TimerFired
    \/ TurnOn
    \/ EngineStarted
    \/ EngineFinal(RouterUtterances)

SpecRouter == Init /\ [][NextRouter]_vars

(* Summaries: the comment list is summarized, with and without a cached   *)
(* file and API keys, while the list is shown, shortened and cleared.      *)
NextSummary ==
    \/ FileDetected
    \/ SummarizeComments
    \/ PdfTextReturned
    \/ GeminiResponded
    \/ OpenAIResponded
    \/ ShowComments
    \/ ClickDelete
    \/ ClearComments
    \/ StorageWritten

SpecSummary ==
    /\ \E geminiKey, openaiKey \in BOOLEAN :
           InitConfigured(ShortText, geminiKey, openaiKey)
    /\ [][NextSummary]_vars

(* Text extraction: one file, of any name, type and contents.             *)
FileNames == {"a.pdf", "a.Pdf", "a.png", "a.b.jpg", "notes", "a.txt"}
BlobTypes == {"application/pdf", "image/png", ""}
PageTexts ==
    {"", "   ", "123456789", "1234567890", " 123456789 ", "a long native text"}
RecognizedTexts == {"", "  ", "ocr"}

Files ==
    [fileName : FileNames, blobType : BlobTypes, pageText : PageTexts,
     recognized : RecognizedTexts]

NextExtract ==
    \/ ExtractTextCalled
    \/ NativeReturned
    \/ OcrReturned

SpecExtract ==
    /\ \E f \in Files :
           /\ vcs = InitVcs
           /\ env = [InitEnv(ShortText) EXCEPT !.file = f]
           /\ obs = InitObs
    /\ [][NextExtract]_vars

(* The file cache: requests complete, messages arrive, fetches are         *)
(* answered, and the background script is started anew.                    *)
NextCache ==
    \/ RequestCompleted
    \/ FileMessageDelivered
    \/ FetchReturned
    \/ BackgroundRestarted

SpecCache == Init /\ [][NextCache]_vars

(* Skips: playback of a text that lasts longer than a skip.                 *)
NextSkip ==
    \/ Tick
    \/ FileDetected
    \/ SpeakText
    \/ ExtractDone
    \/ SynthStart
    \/ SynthEnd
    \/ SynthLate
    \/ ClickSkip

SpecSkip == InitWith(SkipText) /\ [][NextSkip]_vars

----------------------------------------------------------------------------
(* Properties.                                                             *)

LowerArg == Trim(ToLowerCase(obs.arg))

CommandTimers == {t \in env.timers : t.kind = "command"}
WakeTimers == {t \in env.timers : t.kind = "wake"}

LiveEngines ==
    {i \in EngineIds :
        env.engines[i].state
            \in {"starting", "listening", "stopping", "failed"}}

\* C1: while a comment session is recording (from addComment until
\* stopCommentAndSave) the command router executes no action other than
\* ending the comment, whatever is recognised and whichever timer was
\* pending when the session was entered.
C1_NoRouterActionInSession ==
    \A i \in DOMAIN obs.actions :
        obs.actions[i].inComment => obs.actions[i].act = "endCommentRecording"

\* C2: at most one recognition engine instance is live (started and not yet
\* ended) in every reachable state: the old engine has ended before the new
\* one is started.
C2_OneLiveEngine == Cardinality(LiveEngines) <= 1

\* C3: a result of the main engine without the wake phrase, handled while
\* not awake, dispatches nothing to processVoiceCommand, starts no debounce
\* timer (no timer changes, commandTimeout and lastInterimCommand keep their
\* values) and leaves awake false.
C3_Step ==
    (/\ obs'.ev = "main"
     /\ ~vcs.isAwake
     /\ ~Includes(Trim(ToLowerCase(obs'.arg)), wakeWord))
    => /\ obs'.dispatched = <<>>
       /\ obs'.actions = <<>>
       /\ env'.timers = env.timers
       /\ vcs'.commandTimeout = vcs.commandTimeout
       /\ vcs'.lastInterimCommand = vcs.lastInterimCommand
       /\ ~vcs'.isAwake

C3_NotAwakeIgnored == [][C3_Step]_vars

C3_Witness ==
    /\ obs.ev = "main" /\ obs.arg = "download"
    /\ ~obs.pre.isAwake /\ ~vcs.isAwake
    /\ obs.dispatched = <<>>
    /\ CommandTimers # {}

\* C4: a result of the main engine with the wake phrase, handled while not
\* awake, makes awake true, leaves exactly one deactivation timer pending,
\* of 10 seconds and under the id wakeWordTimeout holds, and dispatches
\* nothing to processVoiceCommand.
C4_WakeWordActivates ==
    (/\ obs.ev = "main"
     /\ ~obs.pre.isAwake
     /\ Includes(LowerArg, wakeWord))
    => /\ vcs.isAwake
       /\ Cardinality(WakeTimers) = 1
       /\ \A t \in WakeTimers :
              /\ t.id = vcs.wakeWordTimeout
              /\ t.n = 1
              /\ t.left = Ticks(WakeTimeoutMs)
       /\ obs.dispatched = <<>>
       /\ obs.actions = <<>>

C4_Witness ==
    /\ obs.ev = "main" /\ obs.arg = " Hey Schoology"
    /\ ~obs.pre.isAwake /\ vcs.isAwake
    /\ Cardinality(WakeTimers) = 1

\* C5: awake never lasts more than 10 seconds past the last wake event or
\* processed command, in whichever way awake was set.
C5_AwakeExpires == vcs.isAwake => obs.idle <= WakeTicks

C7_FinalSupersedesInterim ==
    obs.heard.state = "superseded" => obs.heard.sent = <<>>

\* C8: an interim transcript containing "pause", handled while awake and
\* speaking, runs pauseSpeaking within that step (speech is paused after
\* it) and leaves no debounce timer pending.
C8_PauseIsImmediate ==
    (/\ obs.ev = "main" /\ ~obs.final
     /\ obs.pre.isAwake /\ obs.pre.isSpeaking /\ ~obs.pre.isPaused
     /\ Includes(LowerArg, "pause"))
    => /\ \E i \in DOMAIN obs.actions : obs.actions[i].act = "pauseSpeaking"
       /\ vcs.isPaused /\ ~vcs.isSpeaking
       /\ CommandTimers = {}

\* C9: at most one synthesis request is outstanding in every state that
\* playback operations (speak, resume, skip, jump to a comment, pause,
\* stop) reach.
C9_OneSynthesisRequest == Len(env.utterances) <= 1

C9_Witness ==
    /\ obs.ev = "click" /\ obs.arg \in {"skip", "jump", "resume"}
    /\ Len(obs.spoken) = 1
    /\ Len(env.utterances) = 1
    /\ env.late > 0

\* floor(2.5 * t) for t = ticks * TickMs / 1000 seconds
WordsAfter(ticks) == (ticks * TickMs * 5) \div 2000

PauseStep ==
    /\ obs'.ev = "click" /\ obs'.arg = "pause"
    /\ vcs.isSpeaking /\ ~vcs.isPaused

ResumeStep ==
    /\ obs'.ev = "click" /\ obs'.arg = "resume"
    /\ vcs.isPaused /\ vcs.currentText # ""

PausePosition ==
    PauseStep =>
        /\ vcs'.currentPosition =
               Min(WordsAfter(env.sinceSpeechStart),
                   Len(Split(vcs.currentText)))
        /\ vcs'.isPaused /\ ~vcs'.isSpeaking

RemainingWords ==
    SubSeq(Split(vcs.currentText), vcs.currentPosition + 1,
           Len(Split(vcs.currentText)))

\* C10 as stated: pausing t seconds after startSpeaking sets currentPosition
\* to min(floor(2.5 t), W), isPaused and not isSpeaking; a resume while
\* paused, of the text as speak started it, issues one synthesis request,
\* for the words from currentPosition on.
C10_Original ==
    [][/\ PausePosition
       /\ (ResumeStep /\ vcs.currentText = env.docText) =>
              /\ Len(obs'.spoken) = 1
              /\ Split(obs'.spoken[1]) = RemainingWords]_vars

\* C10, amended: the same for the pause; a resume while paused issues one
\* synthesis request for the words from currentPosition on when words are
\* left (currentPosition < W), and when none is left it issues no request
\* and only clears isPaused.
C10_PauseResume ==
    [][/\ PausePosition
       /\ ResumeStep =>
              IF vcs.currentPosition < Len(Split(vcs.currentText))
              THEN /\ Len(obs'.spoken) = 1
                   /\ Split(obs'.spoken[1]) = RemainingWords
                   /\ ~vcs'.isPaused
              ELSE /\ obs'.spoken = <<>>
                   /\ env'.utterances = env.utterances
                   /\ ~vcs'.isPaused /\ ~vcs'.isSpeaking]_vars

C10_Witness ==
    /\ obs.ev = "click" /\ obs.arg = "resume"
    /\ obs.pre.isPaused
    /\ obs.spoken = <<"f g h i j">>

\* C11: a skip of +10 seconds followed by a skip of -10 seconds ends at a
\* position p of the narration with 0 <= p <= the position before both
\* skips; a forward skip past the end clamps the position to the word count
\* and a backward skip before the start clamps it to 0.
C11_SkipRoundTrip ==
    /\ \A i \in DOMAIN obs.skips :
           LET k == obs.skips[i]
           IN  /\ 0 <= k.to /\ k.to <= WordCount(env.docText)
               /\ (k.seconds > 0 /\ 2 * k.from + 50 > 2 * WordCount(env.docText))
                      => k.to = WordCount(env.docText)
               /\ (k.seconds < 0 /\ 2 * k.from < 50) => k.to = 0
    /\ (/\ Len(obs.skips) = 2
        /\ obs.skips[1].seconds = 10
        /\ obs.skips[2].seconds = -10)
       => /\ 0 <= obs.skips[2].to
          /\ obs.skips[2].to <= obs.skips[1].from

\* C12: the end or error event ("interrupted", "canceled") the synthesis
\* engine delivers for an utterance that pause or skip has cancelled is not
\* taken for a stop: it leaves isPaused, isSpeaking and currentPosition as
\* they were.
C12_LateEventIgnored ==
    [][obs'.ev = "late" =>
           /\ vcs'.isPaused = vcs.isPaused
           /\ vcs'.isSpeaking = vcs.isSpeaking
           /\ vcs'.currentPosition = vcs.currentPosition]_vars

\* The engine instance obs.src is one the program has torn down (it holds no
\* reference to it any more) and holds a newer instance in its place.
TornDown(id) ==
    /\ id # 0
    /\ id # vcs.recognition /\ id # vcs.commentRecognition
    /\ vcs.recognition # 0 \/ vcs.commentRecognition # 0

\* C13: an event (start, result, error, end) of a recognition engine
\* instance that was torn down, delivered once a newer instance exists,
\* changes no field, sets no timer and starts no engine.
C13_StaleEventIgnored ==
    [][TornDown(obs'.src) =>
           /\ vcs' = vcs
           /\ env'.timers = env.timers
           /\ obs'.started = <<>>]_vars

\* C14: awake is false while a comment session is open, and it is false
\* when the timer of stopCommentAndSave has made the fresh main engine.
C14_SessionIsDormant ==
    (vcs.commentDialog \/ (obs.ev = "timer" /\ obs.arg = "reinit"))
        => ~vcs.isAwake

\* The session leaves Recording in this step.
ExitsRecording ==
    vcs.isRecordingComment /\ vcs.commentDialog /\ ~vcs'.isRecordingComment

\* The state after "Close dialog" of stopCommentAndSave: the dialog is gone,
\* voice control is enabled and the 1 s timer that makes the fresh main
\* engine is pending.
SessionClosed ==
    /\ ~vcs.commentDialog
    /\ vcs.isEnabled
    /\ \E t \in env.timers : t.kind = "reinit" /\ t.left = Ticks(ReinitMs)

C15_WitnessBlank ==
    /\ obs.ev = "timer" /\ obs.arg = "reinit"
    /\ vcs.recognition # 0
    /\ vcs.commentTranscript = "  "
    /\ env.stored = StoredComments

\* C16: addComment sets the anchor to the playback position: the position
\* its own pause sets when the text was being spoken, the position the
\* earlier pause set when playback was paused, 0 when nothing was playing;
\* and the record saveComment appends carries the anchor.
C16_AnchorIsPlaybackPosition ==
    [][/\ (obs'.ev = "command" /\ obs'.arg = "add comment") =>
            vcs'.currentCommentPosition =
                IF vcs.isSpeaking /\ ~vcs.isPaused THEN vcs'.currentPosition
                ELSE IF vcs.isPaused THEN vcs.currentPosition
                ELSE 0
       /\ Len(vcs'.comments) = Len(vcs.comments) + 1 =>
            vcs'.comments[Len(vcs'.comments)].position
                = vcs.currentCommentPosition]_vars

\* C17: while Recording, a transcript of the session's engine that contains
\* "stop comment" or "end comment" in any case ends the session and leaves
\* the buffer as it was.
C17_TerminatingPhrase ==
    [][(/\ obs'.ev = "comment"
        /\ obs'.src = vcs.commentRecognition
        /\ vcs.isRecordingComment
        /\ \/ Includes(ToLowerCase(obs'.arg), "stop comment")
           \/ Includes(ToLowerCase(obs'.arg), "end comment"))
       => /\ ~vcs'.isRecordingComment
          /\ vcs'.commentTranscript = vcs.commentTranscript]_vars

\* C18: when the session's engine ends while the session is Recording, the
\* session stays Recording with its dialog, its buffer and its engine, and
\* the 100 ms timer is set; the timer's callback, run while Recording, starts
\* that same engine without an exception.
C18_EndRestartsEngine ==
    [][/\ (/\ obs'.ev = "end"
           /\ obs'.src # 0
           /\ obs'.src = vcs.commentRecognition
           /\ vcs.isRecordingComment)
          => /\ vcs'.isRecordingComment
             /\ vcs'.commentDialog = vcs.commentDialog
             /\ vcs'.commentTranscript = vcs.commentTranscript
             /\ vcs'.commentRecognition = vcs.commentRecognition
             /\ vcs'.comments = vcs.comments
             /\ \E t \in env'.timers :
                    t.kind = "commentRestart" /\ t.left = Ticks(CommentRestartMs)
       /\ (/\ obs'.ev = "timer"
           /\ obs'.arg = "commentRestart"
           /\ vcs.isRecordingComment)
          => /\ vcs'.isRecordingComment
             /\ vcs'.commentTranscript = vcs.commentTranscript
             /\ vcs'.commentRecognition = vcs.commentRecognition
             /\ vcs.commentRecognition # 0
             /\ env'.engines[vcs.commentRecognition].state = "starting"
             /\ ~obs'.uncaught]_vars

\* The engine of a session that has a transcript ended and was started
\* again by the timer.
C18_Witness ==
    /\ obs.ev = "timer" /\ obs.arg = "commentRestart"
    /\ vcs.isRecordingComment
    /\ vcs.commentTranscript # ""
    /\ vcs.commentRecognition # 0
    /\ env.engines[vcs.commentRecognition].state = "starting"

\* The router ran the given action in the step that led here.
RouterRan(act) == \E i \in DOMAIN obs.actions : obs.actions[i].act = act

\* The list as it is now was handed to storage in the step that led here.
WriteIssued ==
    /\ Len(env.saving) = 1
    /\ env.saving[1].payload = vcs.comments

C20_SaveKeepsStored ==
    [][(obs'.ev = "saved" /\ obs'.arg = "close")
       => /\ Len(env'.stored) = Len(env.stored) + 1
          /\ SubSeq(env'.stored, 1, Len(env.stored)) = env.stored]_vars

\* The callback of a timer of one of the given kinds ran in the step that
\* led here.
TimerRan(kinds) == obs.ev = "timer" /\ obs.arg \in kinds

\* C21: the timer set by a recoverable error starts the engine only if
\* isEnabled is true when it comes due; and when the last thing the user did
\* was to switch voice control off, no timer's callback sets isEnabled or
\* starts an engine.
C21_NoRestartWhenOff ==
    [][/\ (TimerRan({"errorRestart"})' /\ ~vcs.isEnabled)
          => (obs'.started = <<>> /\ ~vcs'.isEnabled)
       /\ (obs'.ev = "timer" /\ obs.userOff)
          => (obs'.started = <<>> /\ ~vcs'.isEnabled)]_vars

\* C22: from a fatal failure (an error of the main engine other than
\* no-speech and audio-capture, or start() refused) until the user's next
\* click on the toggle, isEnabled is false and no engine is started.
C22_FatalStaysOff ==
    [][obs'.fatal => (~vcs'.isEnabled /\ obs'.started = <<>>)]_vars

\* The message of the router's last branch.
UnknownCommandStatus == "Unknown command. Say \"help\" for commands."

\* C24: when the router matched no rule in the step that led here, the
\* status shown at the end of that step is the "Unknown command" message.
C24_UnknownCommandShown ==
    RouterRan("unknown") => obs.status = UnknownCommandStatus

\* The statuses that tell the user a comment was saved.
SavedStatuses == {"Comment saved at position", "Comment saved and dialog closed"}

\* The session has been left cleanly in the step that led here: no exception
\* escaped, the dialog is gone and voice control is enabled again.
CleanExit == ~obs.uncaught /\ ~vcs.commentDialog /\ vcs.isEnabled

\* C23: when the storage write of stopCommentAndSave's comment has failed,
\* the session is still left cleanly, and the status shown is not one that
\* says the comment was saved.
C23_FailedSaveWarns ==
    (obs.ev = "savefail" /\ obs.arg = "close")
        => (CleanExit /\ obs.status \notin SavedStatuses)

\* A failed write does not block the exit.
FailedSaveExits ==
    (obs.ev = "savefail" /\ obs.arg = "close") => CleanExit

\* A command with the given word was dispatched in the step that led here.
DispatchedWith(word) ==
    \E i \in DOMAIN obs.dispatched : Includes(obs.dispatched[i], word)

\* The wake gate is closed and its timer is cancelled.
Asleep == ~vcs.isAwake /\ vcs.wakeWordTimeout = 0 /\ WakeTimers = {}

\* C25: a command with "sleep" or "deactivate" that was dispatched while
\* awake leaves the system asleep with the deactivation timer cancelled.
C25_SleepDeactivates ==
    (obs.pre.isAwake /\ (DispatchedWith("sleep") \/ DispatchedWith("deactivate")))
        => Asleep

\* The "sleep" half alone.
SleepDeactivates == (obs.pre.isAwake /\ DispatchedWith("sleep")) => Asleep

\* The router ran exactly the action a for the command c in the step that led
\* here.
Routed(c, a) ==
    obs.dispatched = <<c>> => (Len(obs.actions) = 1 /\ obs.actions[1].act = a)

\* C26: every documented command is routed to its documented action.
C26_DocumentedRouting ==
    \A d \in DocumentedCommands : Routed(d.phrase, d.action)

\* C27: a skip command that names a count skips by that count; the commands
\* without a count skip by 10 seconds.
C27_CountedSkipPrecedence ==
    /\ \A d \in CountedSkips : Routed(d.phrase, d.action)
    /\ \A c \in {"skip", "forward"} : Routed(c, "skipSeconds(10)")
    /\ \A c \in {"back", "rewind"} : Routed(c, "skipSeconds(-10)")

\* The commands without a count alone.
PlainSkipsUseDefault ==
    /\ \A c \in {"skip", "forward"} : Routed(c, "skipSeconds(10)")
    /\ \A c \in {"back", "rewind"} : Routed(c, "skipSeconds(-10)")

\* The dialog shows a summary: a text, and not the rendering of no value.
SummaryShown ==
    /\ vcs.summaryDialog # <<>>
    /\ vcs.summaryDialog[1] \notin {"", Undefined}

\* Both APIs have failed in the step that led here, or the second one was
\* not to be had: what is shown is the local generator's summary.
LocalFallback ==
    (obs.summary = "ended" /\ obs.ev = "openai"
        /\ obs.arg \in {"network", "status", "shape"})
        => vcs.summaryDialog = <<generateLocalSummary([v |-> vcs])>>

\* C28: a summarization of a list that is not empty ends, whatever the two
\* APIs answer, with a summary shown and no exception escaping, and with the
\* local generator's summary when both APIs have failed.
C28_SummaryAlwaysShown ==
    /\ obs.summary = "ended" => (SummaryShown /\ ~obs.uncaught)
    /\ LocalFallback

\* The same for every outcome but a payload that has the fields the callers
\* test and no text.
SummaryShownUnlessNoText ==
    (obs.summary = "ended" /\ obs.arg # "notext")
        => (SummaryShown /\ ~obs.uncaught)

\* The file's name or type says it is an image.
IsImageFile ==
    \/ FileExtension(env.file.fileName) \in ImageExtensions
    \/ StartsWith(env.file.blobType, "image/")

\* The file is a PDF and not an image.
IsPdfFile ==
    /\ ~IsImageFile
    /\ \/ FileExtension(env.file.fileName) = "pdf"
       \/ env.file.blobType = "application/pdf"

NativeText == extractTextFromPDF(env.file.pageText)
OcrText == extractTextFromImage(env.file.recognized)

\* C29: extractText returns, for a PDF, the native text when that has 10
\* characters or more after trimming, and then OCR is not run; the OCR text
\* when the native text is shorter and the OCR text is not empty, and the
\* native text otherwise; for an image the OCR text, and then native
\* extraction is not run.
C29_ExtractTextResult ==
    env.extraction.stage = "done" =>
        /\ (IsPdfFile /\ Len(Trim(NativeText)) >= 10) =>
               /\ env.extraction.result = NativeText
               /\ ~env.extraction.ranOcr
        /\ (IsPdfFile /\ Len(Trim(NativeText)) < 10) =>
               /\ env.extraction.ranOcr
               /\ env.extraction.result =
                      IF OcrText # "" THEN OcrText ELSE NativeText
        /\ IsImageFile =>
               /\ env.extraction.result = OcrText
               /\ env.extraction.ranOcr
               /\ ~env.extraction.ranNative

\* A PDF with a short text layer was extracted: OCR ran and its text was
\* returned.
C29_Witness ==
    /\ env.extraction.stage = "done"
    /\ IsPdfFile
    /\ NativeText = "123456789"
    /\ env.extraction.ranNative /\ env.extraction.ranOcr
    /\ env.extraction.result = "--- Page 1 ---\nocr"

\* The entries storage holds for a file.
CacheEntries(fileId) ==
    {i \in DOMAIN env.fileStore : env.fileStore[i].key = CacheKey(fileId)}

\* C30: storage holds at most one entry for each file, and the listener's
\* run for a message with alreadyCached = true fetches nothing.
C30_OneEntryNoRefetch ==
    /\ \A fileId \in FileIds : Cardinality(CacheEntries(fileId)) <= 1
    /\ (obs.ev = "fileDetected" /\ obs.final) => obs.fetched = <<>>

\* A message with alreadyCached = true has arrived for a file that storage
\* holds, and the cached data was taken from there.
C30_Witness ==
    /\ obs.ev = "fileDetected" /\ obs.final
    /\ Cardinality(CacheEntries(obs.arg)) = 1
    /\ env.cachedFileData
    /\ Len(env.fileStore) = 2

\* C31: the callback of a debounce timer dispatches a command only while
\* awake and outside a comment session: a timer that awake = false or a
\* session has superseded dispatches nothing.
C31_StaleDebounceSilent ==
    (TimerRan({"command"}) /\ obs.dispatched # <<>>)
        => /\ obs.pre.isAwake
           /\ \A i \in DOMAIN obs.actions : ~obs.actions[i].inComment


\* C32: the narration position is a whole number of words between 0 and the
\* word count of the current narration text, and the narration is never
\* both speaking and paused.
C32_PositionInRange ==
    /\ vcs.currentPosition \in Nat
    /\ vcs.currentPosition <= Len(Split(vcs.currentText))
    /\ ~(vcs.isSpeaking /\ vcs.isPaused)

\* a pause has measured a position strictly inside the narration text
C32_Witness ==
    /\ vcs.isPaused
    /\ vcs.currentPosition > 0
    /\ vcs.currentPosition < Len(Split(vcs.currentText))


\* C33: a resume with words left replaces the narration text by the words
\* from the pause position on (W - p of them), restarts the position at 0
\* and the clock at the resume, and speaks that text; a pause t seconds
\* into a resumed narration sets the position to min(floor(2.5 t), W - p),
\* an index into the remaining text.
C33_ResumeRestartsTracking ==
    [][/\ (ResumeStep /\ vcs.currentPosition < Len(Split(vcs.currentText)))
            => /\ vcs'.currentText = Join(RemainingWords)
               /\ Len(Split(vcs'.currentText))
                      = Len(Split(vcs.currentText)) - vcs.currentPosition
               /\ vcs'.currentPosition = 0
               /\ env'.sinceSpeechStart = 0
               /\ obs'.spoken = <<vcs'.currentText>>
       /\ (PauseStep /\ vcs.currentText # env.docText)
            => vcs'.currentPosition =
                   Min(WordsAfter(env.sinceSpeechStart),
                       Len(Split(vcs.currentText)))]_vars

\* paused two words into the five words a resume at word 5 left
C33_Witness ==
    /\ obs.ev = "click" /\ obs.arg = "pause"
    /\ vcs.isPaused
    /\ vcs.currentText = "f g h i j"
    /\ vcs.currentPosition = 2


\* C34: in every state with awake = true a deactivation timer is pending,
\* whichever results, dispatched commands and timer firings led to it.
C34_AwakeHasTimer == vcs.isAwake => WakeTimers # {}


\* C35: a comment session persists at most one comment record and schedules
\* at most one re-creation of the main engine, whichever exit triggers
\* arrive and in whichever order.
C35_OneSaveOneRestart ==
    /\ obs.session.records <= 1
    /\ obs.session.reinits <= 1


\* C36: once an interim transcript has dispatched an urgent command, the
\* next result of the same engine for the same words, a later interim or the
\* final transcript of the utterance, dispatches nothing.
C36_UrgentDispatchedOnce ==
    [][(/\ obs.ev = "main" /\ ~obs.final
        /\ obs.heard.state = "urgent"
        /\ obs.dispatched = <<obs.heard.text>>
        /\ obs'.ev = "main"
        /\ obs'.src = obs.src
        /\ Trim(ToLowerCase(obs'.arg)) = obs.heard.text)
       => obs'.dispatched = <<>>]_vars


\* What a transcript holds before the first occurrence of a phrase.
ContentBefore(s, phrase) ==
    LET hits == {i \in 1..(Len(s) - Len(phrase) + 1) :
                    SubSeq(s, i, i + Len(phrase) - 1) = phrase}
    IN  IF hits = {} THEN s
        ELSE SubSeq(s, 1, (CHOOSE i \in hits : \A j \in hits : i <= j) - 1)

\* C37: when the result that ends a session carries words before the stop
\* phrase, the session does not end with "No comment to save": a record is
\* persisted and its text includes those words.
C37_ContentBeforeStopSaved ==
    [][(/\ ExitsRecording
        /\ obs'.ev = "comment"
        /\ Trim(ContentBefore(ToLowerCase(obs'.arg), "stop comment")) # "")
       => /\ obs'.status # "No comment to save"
          /\ Len(vcs'.comments) = Len(vcs.comments) + 1
          /\ Includes(ToLowerCase(vcs'.comments[Len(vcs'.comments)].text),
                      Trim(ContentBefore(ToLowerCase(obs'.arg),
                                         "stop comment")))]_vars


\* C38: outside a comment session the main engine is never lost for good:
\* when the reference to it is null, voice control is enabled and the timer
\* that makes the engine anew is pending, so that the toggle can switch
\* voice on afterwards.
C38_MainEngineNotLost ==
    (vcs.recognition = 0 /\ ~vcs.commentDialog)
        => /\ vcs.isEnabled
           /\ \E t \in env.timers : t.kind = "reinit"


\* C39: when addComment has torn the main engine down and the start of the
\* session's engine fails, the session is abandoned and main voice is
\* restored: the dialog is gone, voice control is enabled, and the main
\* engine exists or the timer that makes it anew is pending.
C39_FailedStartRestoresVoice ==
    (RouterRan("addComment") /\ obs.started = <<>>)
        => /\ ~vcs.commentDialog
           /\ vcs.isEnabled
           /\ \/ vcs.recognition # 0
              \/ \E t \in env.timers : t.kind = "reinit"


\* C40: a message that reports alreadyCached = true finds the file's entry
\* in storage, and a file the background script has marked cached has its
\* entry in storage unless its fetch, or the message that asks for the
\* fetch, is still under way.
C40_CachedMeansStored ==
    /\ (obs.ev = "fileDetected" /\ obs.final)
           => storageHas(env.fileStore, CacheKey(obs.arg))
    /\ \A fileId \in env.cachedFiles :
           \/ storageHas(env.fileStore, CacheKey(fileId))
           \/ \E i \in DOMAIN env.fetches : env.fetches[i] = fileId
           \/ \E i \in DOMAIN env.messages :
                  /\ env.messages[i].fileId = fileId
                  /\ ~env.messages[i].alreadyCached

====
